---- MODULE Spec2Model ----
(***************************************************************************)
(* A model of the GL debug-output core of Mesa's main/errors.c: the        *)
(* per-namespace message filters, the copy-on-write stack of debug groups, *)
(* the ring-buffer message log and the dispatch of messages to a callback  *)
(* or to the log.                                                          *)
(*                                                                         *)
(* The C functions are modelled as operators that take the machine state   *)
(* M (a record) and return the machine state after the call, with the      *)
(* function's return value in M.ret.  Every action of the next-state       *)
(* relation is one entry point of the file, run to completion.             *)
(***************************************************************************)
EXTENDS Integers, Sequences, FiniteSets, TLC

VARIABLES
    live,            \* ctx->Debug != NULL
    debug,           \* *ctx->Debug (struct gl_debug_state); all zero while ~live
    heap,            \* the gl_debug_group objects, by address
    ntext,           \* number of malloc'ed message texts not yet freed
    NextDynamicID,   \* static GLuint NextDynamicID
    oom_msg_id,      \* static GLuint oom_msg_id of debug_message_store
    error_msg_id,    \* static GLuint error_msg_id of _mesa_error
    op,              \* the last entry point run: its arguments and what it reported
    calls,           \* the number of entry points run, where a run is bounded
    sent,            \* the ids of the messages inserted, where a run records them
    got,             \* the messages fetched from the log, where a run records them
    saved,           \* what each open glPushDebugGroup was given and the filters then
    namespace,       \* one struct gl_debug_namespace, where a run is about it alone
    nsop,            \* the last operation on it: its arguments and what it returned
    idsSet,          \* the ids debug_namespace_set was called with on it
    slot,            \* caller-held static GLuint id cells, where threads share them
    DynamicIDMutex,  \* static mtx_t DynamicIDMutex: the thread holding it, or 0
    pc               \* where each thread is inside debug_get_id, and on which cell

vars == <<live, debug, heap, ntext, NextDynamicID, oom_msg_id, error_msg_id, op,
          calls, sent, got, saved, namespace, nsop, idsSet, slot, DynamicIDMutex,
          pc>>

----------------------------------------------------------------------------
(* Sizes.  config.h is not part of the sources at hand; the three MAX_      *)
(* values are scaled down and are the bounds of the model.                  *)

MAX_DEBUG_LOGGED_MESSAGES == 3
MAX_DEBUG_GROUP_STACK_DEPTH == 3
MAX_DEBUG_MESSAGE_LENGTH == 40

\* Elements(debug_source_enums), Elements(debug_type_enums),
\* Elements(debug_severity_enums)
MESA_DEBUG_SOURCE_COUNT == 6
MESA_DEBUG_TYPE_COUNT == 9
MESA_DEBUG_SEVERITY_COUNT == 4

\* enum mesa_debug_source / _type / _severity: the index in the enum tables
MESA_DEBUG_SOURCE_API == 0
MESA_DEBUG_SOURCE_THIRD_PARTY == 3
MESA_DEBUG_SOURCE_APPLICATION == 4
MESA_DEBUG_SOURCE_OTHER == 5
MESA_DEBUG_TYPE_ERROR == 0
MESA_DEBUG_TYPE_MARKER == 6
MESA_DEBUG_TYPE_PUSH_GROUP == 7
MESA_DEBUG_TYPE_POP_GROUP == 8
MESA_DEBUG_SEVERITY_LOW == 0
MESA_DEBUG_SEVERITY_MEDIUM == 1
MESA_DEBUG_SEVERITY_HIGH == 2
MESA_DEBUG_SEVERITY_NOTIFICATION == 3

debug_source_enums ==
    <<"GL_DEBUG_SOURCE_API", "GL_DEBUG_SOURCE_WINDOW_SYSTEM",
      "GL_DEBUG_SOURCE_SHADER_COMPILER", "GL_DEBUG_SOURCE_THIRD_PARTY",
      "GL_DEBUG_SOURCE_APPLICATION", "GL_DEBUG_SOURCE_OTHER">>

debug_type_enums ==
    <<"GL_DEBUG_TYPE_ERROR", "GL_DEBUG_TYPE_DEPRECATED_BEHAVIOR",
      "GL_DEBUG_TYPE_UNDEFINED_BEHAVIOR", "GL_DEBUG_TYPE_PORTABILITY",
      "GL_DEBUG_TYPE_PERFORMANCE", "GL_DEBUG_TYPE_OTHER",
      "GL_DEBUG_TYPE_MARKER", "GL_DEBUG_TYPE_PUSH_GROUP",
      "GL_DEBUG_TYPE_POP_GROUP">>

debug_severity_enums ==
    <<"GL_DEBUG_SEVERITY_LOW", "GL_DEBUG_SEVERITY_MEDIUM",
      "GL_DEBUG_SEVERITY_HIGH", "GL_DEBUG_SEVERITY_NOTIFICATION">>

\* The C tables are indexed from 0, a TLA+ tuple from 1.
EnumAt(table, i) == table[i + 1]

\* The loop of gl_enum_to_debug_source/_type/_severity: the index of the first
\* entry equal to e, or the size of the table.
EnumIndex(table, e) ==
    IF \E i \in 1..Len(table) : table[i] = e
    THEN (CHOOSE i \in 1..Len(table) :
              table[i] = e /\ \A j \in 1..(i - 1) : table[j] # e) - 1
    ELSE Len(table)

gl_enum_to_debug_source(e) == EnumIndex(debug_source_enums, e)
gl_enum_to_debug_type(e) == EnumIndex(debug_type_enums, e)
gl_enum_to_debug_severity(e) == EnumIndex(debug_severity_enums, e)

----------------------------------------------------------------------------
(* Character buffers are sequences of character codes; 0 is the terminator. *)

NUL == 0

\* strlen: the number of characters before the first terminator.
strlen(buf) ==
    IF \E i \in 1..Len(buf) : buf[i] = NUL
    THEN (CHOOSE i \in 1..Len(buf) :
              buf[i] = NUL /\ \A j \in 1..(i - 1) : buf[j] # NUL) - 1
    ELSE Len(buf)

\* strncpy(dst, src, n): n bytes, the characters of src up to its terminator
\* and then terminators.
strncpy(src, n) == [i \in 1..n |-> IF i <= strlen(src) THEN src[i] ELSE NUL]

\* A text of n characters c, as a caller holds it (terminated).
CString(n, c) == [i \in 1..(n + 1) |-> IF i <= n THEN c ELSE NUL]

\* static char out_of_memory[] = "Debugging error: out of memory" (30 characters)
OomChar == 111
out_of_memory == CString(30, OomChar)

\* Pointers to message texts: NULL, the static out_of_memory array, or a
\* malloc'ed block with its bytes.
NullText == [where |-> "null", bytes |-> <<>>]
StaticOom == [where |-> "static", bytes |-> out_of_memory]
HeapText(bytes) == [where |-> "heap", bytes |-> bytes]

----------------------------------------------------------------------------
(* Filter namespaces: struct gl_debug_namespace.  Elements is the linked    *)
(* list of struct gl_debug_element, in list order; State and DefaultState   *)
(* are bit fields over the severities.                                      *)

Pow2(n) == 2 ^ n

\* state & (1 << severity), as 0 or 1
Bit(state, severity) == (state \div Pow2(severity)) % 2

\* A change of one severity that rewrites the whole state.
SetBit_Whole(state, severity, enabled) ==
    IF enabled THEN Pow2(MESA_DEBUG_SEVERITY_COUNT) - 1 ELSE 0

\* (state & ~mask) | val, with mask == 1 << severity and val == mask or 0
SetBit(state, severity, enabled) ==
    state - Bit(state, severity) * Pow2(severity)
          + (IF enabled THEN Pow2(severity) ELSE 0)

\* The position of the first element of the list with the given ID, or 0.
FindElement(elems, id) ==
    IF \E i \in 1..Len(elems) : elems[i].ID = id
    THEN CHOOSE i \in 1..Len(elems) :
             elems[i].ID = id /\ \A j \in 1..(i - 1) : elems[j].ID # id
    ELSE 0

\* remove_from_list
RemoveAt(elems, i) ==
    [j \in 1..(Len(elems) - 1) |-> IF j < i THEN elems[j] ELSE elems[j + 1]]

debug_namespace_init ==
    [Elements |-> <<>>,
     DefaultState |-> Pow2(MESA_DEBUG_SEVERITY_HIGH) + Pow2(MESA_DEBUG_SEVERITY_MEDIUM)]

\* The copy made by debug_namespace_copy when every malloc succeeds: the
\* elements are appended one by one in list order.
RECURSIVE CopyElements(_, _)
CopyElements(elems, dst) ==
    IF elems = <<>> THEN dst
    ELSE CopyElements(Tail(elems),
                      Append(dst, [ID |-> Head(elems).ID, State |-> Head(elems).State]))

debug_namespace_copy(src) ==
    [Elements |-> CopyElements(src.Elements, <<>>), DefaultState |-> src.DefaultState]

\* debug_namespace_set.  mallocOk is what malloc answers if it is called;
\* the result tells the namespace, the return value and whether malloc ran.
debug_namespace_set(ns, id, enabled, mallocOk) ==
    LET state == IF enabled THEN Pow2(MESA_DEBUG_SEVERITY_COUNT) - 1 ELSE 0
        e == FindElement(ns.Elements, id)
    IN  IF ns.DefaultState = state
        THEN [ns |-> IF e # 0 THEN [ns EXCEPT !.Elements = RemoveAt(@, e)] ELSE ns,
              ret |-> TRUE, malloced |-> FALSE]
        ELSE IF e = 0
        THEN IF ~mallocOk
             THEN [ns |-> ns, ret |-> FALSE, malloced |-> TRUE]
             ELSE [ns |-> [ns EXCEPT !.Elements =
                                 Append(@, [ID |-> id, State |-> state])],
                   ret |-> TRUE, malloced |-> TRUE]
        ELSE [ns |-> [ns EXCEPT !.Elements[e].State = state],
              ret |-> TRUE, malloced |-> FALSE]

\* A loop that sets the bit and removes nothing.
RECURSIVE SetAllElements_NoPrune(_, _, _, _)
SetAllElements_NoPrune(elems, severity, enabled, defaultState) ==
    IF elems = <<>> THEN <<>>
    ELSE <<[ID |-> Head(elems).ID,
            State |-> SetBit(Head(elems).State, severity, enabled)]>>
         \o SetAllElements_NoPrune(Tail(elems), severity, enabled, defaultState)

\* The foreach_s loop of debug_namespace_set_all: every element gets the bit,
\* and an element that now equals the default is removed.
RECURSIVE SetAllElements(_, _, _, _)
SetAllElements(elems, severity, enabled, defaultState) ==
    IF elems = <<>> THEN <<>>
    ELSE LET st == SetBit(Head(elems).State, severity, enabled)
             rest == SetAllElements(Tail(elems), severity, enabled, defaultState)
         IN  IF st = defaultState THEN rest
             ELSE <<[ID |-> Head(elems).ID, State |-> st]>> \o rest

\* A set_all that keeps the elements when it sets every severity.
debug_namespace_set_all_Keep(ns, severity, enabled) ==
    IF severity = MESA_DEBUG_SEVERITY_COUNT
    THEN [ns EXCEPT !.DefaultState = IF enabled THEN Pow2(severity) - 1 ELSE 0]
    ELSE LET d == SetBit(ns.DefaultState, severity, enabled)
         IN  [Elements |-> SetAllElements(ns.Elements, severity, enabled, d),
              DefaultState |-> d]

debug_namespace_set_all(ns, severity, enabled) ==
    IF severity = MESA_DEBUG_SEVERITY_COUNT
    THEN [Elements |-> <<>>,
          DefaultState |-> IF enabled THEN Pow2(severity) - 1 ELSE 0]
    ELSE LET d == SetBit(ns.DefaultState, severity, enabled)
         IN  [Elements |-> SetAllElements(ns.Elements, severity, enabled, d),
              DefaultState |-> d]

\* A get that looks at the default state only.
debug_namespace_get_Default(ns, id, severity) == Bit(ns.DefaultState, severity) # 0

debug_namespace_get(ns, id, severity) ==
    LET e == FindElement(ns.Elements, id)
        state == IF e # 0 THEN ns.Elements[e].State ELSE ns.DefaultState
    IN  Bit(state, severity) # 0

----------------------------------------------------------------------------
(* Groups, messages and the debug state.                                    *)

Sources == 0..(MESA_DEBUG_SOURCE_COUNT - 1)
Types == 0..(MESA_DEBUG_TYPE_COUNT - 1)
Severities == 0..(MESA_DEBUG_SEVERITY_COUNT - 1)
Slots == 0..(MAX_DEBUG_GROUP_STACK_DEPTH - 1)
LogSlots == 0..(MAX_DEBUG_LOGGED_MESSAGES - 1)

\* Addresses of struct gl_debug_group objects; 0 is NULL.  At most one group
\* per stack slot is ever allocated.
NULL == 0
GroupAddrs == 1..MAX_DEBUG_GROUP_STACK_DEPTH

\* A struct gl_debug_group whose namespaces are all ns.
GroupOf(ns) == [s \in Sources |-> [t \in Types |-> ns]]

\* Memory that is not allocated.
FreeBlock == [used |-> FALSE, Namespaces |-> GroupOf([Elements |-> <<>>, DefaultState |-> 0])]

\* struct gl_debug_message, zeroed
ZeroMessage ==
    [source |-> 0, type |-> 0, id |-> 0, severity |-> 0, length |-> 0,
     message |-> NullText]

\* struct gl_debug_state after CALLOC_STRUCT
ZeroDebug ==
    [Callback |-> NULL, CallbackData |-> NULL,
     SyncOutput |-> FALSE, DebugOutput |-> FALSE,
     Groups |-> [i \in Slots |-> NULL],
     GroupMessages |-> [i \in Slots |-> ZeroMessage],
     GroupStackDepth |-> 0,
     Log |-> [Messages |-> [i \in LogSlots |-> ZeroMessage],
              NextMessage |-> 0, NumMessages |-> 0]]

----------------------------------------------------------------------------
(* The machine state handed from call to call.  fail is the set of malloc   *)
(* calls (counted from 1 within one entry point) that return NULL.          *)

Machine(fail) ==
    [live |-> live, debug |-> debug, heap |-> heap, ntext |-> ntext,
     NextDynamicID |-> NextDynamicID, oom_msg_id |-> oom_msg_id,
     error_msg_id |-> error_msg_id,
     fail |-> fail, nalloc |-> 0,
     events |-> <<>>,      \* what log_msg handed to the callback or the log
     errors |-> <<>>,      \* the GL errors recorded by _mesa_error
     asserts |-> {},       \* the assertions of the code that did not hold
     notes |-> {},         \* the branches taken that leave no other trace
     ret |-> FALSE]

\* GLuint arithmetic wraps; the model scales the 2^32 values of a GLuint down.
GLuintRange == 16

\* malloc: ret tells whether it returned memory.
malloc(M) == [M EXCEPT !.nalloc = @ + 1, !.ret = (M.nalloc + 1) \notin M.fail]

\* debug_get_id on one of the two static id cells of this file.
debug_get_id(M, cell) ==
    IF M[cell] = 0
    THEN [M EXCEPT ![cell] = M.NextDynamicID,
                   !.NextDynamicID = (@ + 1) % GLuintRange]
    ELSE M

\* A clear that frees the text whatever it points to.
debug_message_clear_FreeAll(M, msg) ==
    [M EXCEPT !.ntext = IF msg.message # NullText THEN @ - 1 ELSE @,
              !.ret = [msg EXCEPT !.message = NullText, !.length = 0]]

\* A clear that leaves the message in its slot.
debug_message_clear_Keep(M, msg) == [M EXCEPT !.ret = msg]

\* debug_message_clear: ret is the message afterwards.
debug_message_clear(M, msg) ==
    [M EXCEPT !.ntext = IF msg.message.where = "heap" THEN @ - 1 ELSE @,
              !.ret = [msg EXCEPT !.message = NullText, !.length = 0]]

\* debug_message_store: ret is the message afterwards.
debug_message_store(M, msg, source, type, id, severity, len, buf) ==
    LET A == IF msg.message # NullText \/ msg.length # 0
             THEN {"debug_message_store: !msg->message && !msg->length"} ELSE {}
        M1 == [malloc(M) EXCEPT !.asserts = @ \cup A]
    IN  IF M1.ret
        THEN [M1 EXCEPT !.ntext = @ + 1,
                        !.ret = [source |-> source, type |-> type, id |-> id,
                                 severity |-> severity, length |-> len + 1,
                                 message |-> HeapText(strncpy(buf, len) \o <<NUL>>)]]
        ELSE LET M2 == debug_get_id(M1, "oom_msg_id")
             IN  [M2 EXCEPT !.notes = @ \cup {"out of memory message"},
                            !.ret = [source |-> MESA_DEBUG_SOURCE_OTHER,
                                     type |-> MESA_DEBUG_TYPE_ERROR,
                                     id |-> M2.oom_msg_id,
                                     severity |-> MESA_DEBUG_SEVERITY_HIGH,
                                     length |-> strlen(out_of_memory) + 1,
                                     message |-> StaticOom]]

\* debug_create: ret tells whether a state was made.
debug_create(M) ==
    LET M1 == malloc(M)
        M2 == malloc(M1)
    IN  IF ~M1.ret THEN M1
        ELSE IF ~M2.ret THEN M2
        ELSE [M2 EXCEPT !.live = TRUE,
                        !.debug = [ZeroDebug EXCEPT !.Groups[0] = 1],
                        !.heap[1] = [used |-> TRUE,
                                     Namespaces |-> GroupOf(debug_namespace_init)]]

\* A top group that never counts as shared with the group below it.
debug_is_group_read_only_Never(d) == FALSE

debug_is_group_read_only(d) ==
    LET gstack == d.GroupStackDepth
    IN  gstack > 0 /\ d.Groups[gstack] = d.Groups[gstack - 1]

\* The address malloc returns for a group: the lowest one not in use (NULL
\* if there is none).
FreeAddr(h) ==
    IF \E a \in GroupAddrs : ~h[a].used
    THEN CHOOSE a \in GroupAddrs : ~h[a].used /\ \A b \in 1..(a - 1) : h[b].used
    ELSE NULL

HasElements(grp) ==
    \E s \in Sources, t \in Types : grp.Namespaces[s][t].Elements # <<>>

\* debug_make_group_writable.  The mallocs of the element copies are one
\* malloc call here: the copy as a whole succeeds, or it is undone and freed.
debug_make_group_writable(M) ==
    LET gstack == M.debug.GroupStackDepth
        src == M.heap[M.debug.Groups[gstack]]
        M1 == malloc(M)
        dst == FreeAddr(M.heap)
        M2 == IF HasElements(src) THEN malloc(M1) ELSE M1
    IN  IF ~debug_is_group_read_only(M.debug) THEN [M EXCEPT !.ret = TRUE]
        ELSE IF ~M1.ret \/ dst = NULL
        THEN [M1 EXCEPT !.ret = FALSE, !.notes = @ \cup {"make_group_writable failed"}]
        ELSE IF ~M2.ret
        THEN [M2 EXCEPT !.notes = @ \cup {"make_group_writable failed"}]
        ELSE [M2 EXCEPT
                !.heap[dst] = [used |-> TRUE,
                               Namespaces |-> [s \in Sources |-> [t \in Types |->
                                   debug_namespace_copy(src.Namespaces[s][t])]]],
                !.debug.Groups[gstack] = dst,
                !.ret = TRUE]

\* free() of a group
FreeGroup(M, a) ==
    IF a \in GroupAddrs /\ M.heap[a].used
    THEN [M EXCEPT !.heap[a] = FreeBlock, !.notes = @ \cup {"free(grp)"}]
    ELSE [M EXCEPT !.asserts = @ \cup {"free of a group that is not allocated"}]

debug_clear_group(M) ==
    LET gstack == M.debug.GroupStackDepth
        M1 == IF ~debug_is_group_read_only(M.debug)
              THEN FreeGroup(M, M.debug.Groups[gstack]) ELSE M
    IN  [M1 EXCEPT !.debug.Groups[gstack] = NULL]

\* debug_destroy: the groups are cleared from the top slot down to slot 0,
\* then the state itself is freed.  The messages of the log and the pending
\* group messages are not looked at.
RECURSIVE debug_destroy(_)
debug_destroy(M) ==
    IF M.debug.GroupStackDepth > 0
    THEN debug_destroy([debug_clear_group(M) EXCEPT !.debug.GroupStackDepth = @ - 1])
    ELSE [debug_clear_group(M) EXCEPT !.debug = ZeroDebug]

_mesa_free_errors_data(M) ==
    IF M.live THEN [debug_destroy(M) EXCEPT !.live = FALSE] ELSE M

debug_set_message_enable(M, source, type, id, enabled) ==
    LET gstack == M.debug.GroupStackDepth
        M1 == debug_make_group_writable(M)
        g == M1.debug.Groups[gstack]
        ns == M1.heap[g].Namespaces[source][type]
        M2 == IF debug_namespace_set(ns, id, enabled, TRUE).malloced
              THEN malloc(M1) ELSE M1
        r == debug_namespace_set(ns, id, enabled, M2.ret)
    IN  [M2 EXCEPT !.heap[g].Namespaces[source][type] = r.ns,
                   !.notes = IF r.ret THEN @ ELSE @ \cup {"namespace_set failed"}]

debug_set_message_enable_all(M, source, type, severity, enabled) ==
    LET gstack == M.debug.GroupStackDepth
        s0 == IF source = MESA_DEBUG_SOURCE_COUNT THEN 0 ELSE source
        smax == IF source = MESA_DEBUG_SOURCE_COUNT
                THEN MESA_DEBUG_SOURCE_COUNT ELSE source + 1
        t0 == IF type = MESA_DEBUG_TYPE_COUNT THEN 0 ELSE type
        tmax == IF type = MESA_DEBUG_TYPE_COUNT
                THEN MESA_DEBUG_TYPE_COUNT ELSE type + 1
        M1 == debug_make_group_writable(M)
        g == M1.debug.Groups[gstack]
    IN  [M1 EXCEPT !.heap[g].Namespaces =
            [s \in Sources |-> [t \in Types |->
                IF s0 <= s /\ s < smax /\ t0 <= t /\ t < tmax
                THEN debug_namespace_set_all(@[s][t], severity, enabled)
                ELSE @[s][t]]]]

\* A check that lets every message through.
debug_is_message_enabled_Always(M, source, type, id, severity) == TRUE

debug_is_message_enabled(M, source, type, id, severity) ==
    LET gstack == M.debug.GroupStackDepth
        grp == M.heap[M.debug.Groups[gstack]]
    IN  IF ~M.debug.DebugOutput THEN FALSE
        ELSE debug_namespace_get(grp.Namespaces[source][type], id, severity)

----------------------------------------------------------------------------
(* The message log and the dispatch.                                        *)

\* What log_msg did with a message: handed to the callback (with the GL
\* enums the callback receives), stored in the log, or dropped by the full log.
Event(sink, source, type, id, severity, len, buf) ==
    [sink |-> sink, source |-> source, type |-> type, id |-> id,
     severity |-> severity, len |-> len, buf |-> buf,
     gl_source |-> EnumAt(debug_source_enums, source),
     gl_type |-> EnumAt(debug_type_enums, type),
     gl_severity |-> EnumAt(debug_severity_enums, severity)]

\* if (log->NumMessages == MAX_DEBUG_LOGGED_MESSAGES) return;
\* A log that never counts as full.
LogIsFull_Never(log) == FALSE

\* A log that counts as full one message early.
LogIsFull_Early(log) == log.NumMessages >= MAX_DEBUG_LOGGED_MESSAGES - 1

LogIsFull(log) == log.NumMessages = MAX_DEBUG_LOGGED_MESSAGES

debug_log_message(M, source, type, id, severity, len, buf) ==
    LET log == M.debug.Log
        A == IF len >= 0 /\ len < MAX_DEBUG_MESSAGE_LENGTH THEN {}
             ELSE {"debug_log_message: len >= 0 && len < MAX_DEBUG_MESSAGE_LENGTH"}
        M0 == [M EXCEPT !.asserts = @ \cup A]
        nextEmpty == (log.NextMessage + log.NumMessages) % MAX_DEBUG_LOGGED_MESSAGES
        M1 == debug_message_store(M0, log.Messages[nextEmpty],
                                  source, type, id, severity, len, buf)
    IN  IF LogIsFull(log)
        THEN [M0 EXCEPT !.events =
                 Append(@, Event("dropped", source, type, id, severity, len, buf))]
        ELSE [M1 EXCEPT !.debug.Log.Messages[nextEmpty] = M1.ret,
                        !.debug.Log.NumMessages = @ + 1,
                        !.events =
                 Append(@, Event("log", source, type, id, severity, len, buf))]

\* A fetch that returns the newest message.
debug_fetch_message_Newest(d) ==
    IF d.Log.NumMessages # 0
    THEN (d.Log.NextMessage + d.Log.NumMessages - 1) % MAX_DEBUG_LOGGED_MESSAGES
    ELSE -1

\* debug_fetch_message: the index of the oldest message, or -1 for NULL.
debug_fetch_message(d) ==
    IF d.Log.NumMessages # 0 THEN d.Log.NextMessage ELSE -1

\* A head that stays where it is.
NextSlot_Stay(i) == i

\* log->NextMessage++; log->NextMessage %= MAX_DEBUG_LOGGED_MESSAGES;
NextSlot(i) == (i + 1) % MAX_DEBUG_LOGGED_MESSAGES

RECURSIVE debug_delete_messages(_, _)
debug_delete_messages(M, count) ==
    LET log == M.debug.Log
        n == IF count > log.NumMessages THEN log.NumMessages ELSE count
        M1 == debug_message_clear(M, log.Messages[log.NextMessage])
        M2 == [M1 EXCEPT !.debug.Log.Messages[log.NextMessage] = M1.ret,
                         !.debug.Log.NumMessages = @ - 1,
                         !.debug.Log.NextMessage = NextSlot(@)]
    IN  IF n = 0 THEN M ELSE debug_delete_messages(M2, n - 1)

debug_get_group_message(d) == d.GroupStackDepth

debug_push_group(M) ==
    LET gstack == M.debug.GroupStackDepth
    IN  [M EXCEPT !.debug.Groups[gstack + 1] = M.debug.Groups[gstack],
                  !.debug.GroupStackDepth = @ + 1]

debug_pop_group(M) ==
    LET M1 == debug_clear_group(M)
    IN  [M1 EXCEPT !.debug.GroupStackDepth = @ - 1]

\* log_msg once the debug state is at hand (lines 806 to 818).
\* A dispatch that logs the message whether or not a callback is set.
log_msg_to_LogOnly(M, source, type, id, severity, len, buf) ==
    IF ~debug_is_message_enabled(M, source, type, id, severity) THEN M
    ELSE debug_log_message(M, source, type, id, severity, len, buf)

log_msg_to(M, source, type, id, severity, len, buf) ==
    IF ~debug_is_message_enabled(M, source, type, id, severity) THEN M
    ELSE IF M.debug.Callback # NULL
    THEN [M EXCEPT !.events =
             Append(@, Event("callback", source, type, id, severity, len, buf))]
    ELSE debug_log_message(M, source, type, id, severity, len, buf)

\* The text _mesa_error formats, "<error> in <message>": the formatting is
\* outside this file, the model keeps one short text per error.
ErrorCodes ==
    <<"GL_INVALID_ENUM", "GL_INVALID_VALUE", "GL_INVALID_OPERATION",
      "GL_STACK_OVERFLOW", "GL_STACK_UNDERFLOW", "GL_OUT_OF_MEMORY">>

ErrorText(error) == <<69, 48 + EnumIndex(ErrorCodes, error), NUL>>

\* An error report that is logged whether or not its message is enabled.
_mesa_error_LogAlways(M, error) ==
    LET M1 == debug_get_id(M, "error_msg_id")
        s2 == ErrorText(error)
        M2 == IF M1.live
              THEN debug_log_message(M1, MESA_DEBUG_SOURCE_API, MESA_DEBUG_TYPE_ERROR,
                                     M1.error_msg_id, MESA_DEBUG_SEVERITY_HIGH,
                                     strlen(s2), s2)
              ELSE M1
    IN  [M2 EXCEPT !.errors = Append(@, error)]

\* _mesa_error, with nothing printed to stderr (do_output is false).  The
\* debug state exists wherever it logs, so its log_msg is log_msg_to.
_mesa_error(M, error) ==
    LET M1 == debug_get_id(M, "error_msg_id")
        do_log == IF M1.live
                  THEN debug_is_message_enabled(M1, MESA_DEBUG_SOURCE_API,
                           MESA_DEBUG_TYPE_ERROR, M1.error_msg_id,
                           MESA_DEBUG_SEVERITY_HIGH)
                  ELSE FALSE
        s2 == ErrorText(error)
        len == strlen(s2)
        M2 == IF do_log
              THEN log_msg_to(M1, MESA_DEBUG_SOURCE_API, MESA_DEBUG_TYPE_ERROR,
                              M1.error_msg_id, MESA_DEBUG_SEVERITY_HIGH, len, s2)
              ELSE M1
    IN  IF do_log /\ len >= MAX_DEBUG_MESSAGE_LENGTH THEN M1
        ELSE [M2 EXCEPT !.errors = Append(@, error)]

_mesa_get_debug_state(M) ==
    IF M.live THEN M
    ELSE LET M1 == debug_create(M)
         IN  IF M1.live THEN M1 ELSE _mesa_error(M1, "GL_OUT_OF_MEMORY")

log_msg(M, source, type, id, severity, len, buf) ==
    LET M1 == _mesa_get_debug_state(M)
    IN  IF ~M1.live THEN M1
        ELSE log_msg_to(M1, source, type, id, severity, len, buf)

----------------------------------------------------------------------------
(* The entry points.                                                        *)

INSERT == 1
CONTROL == 2

\* validate_params without its error report: are the three enums valid for
\* the caller?
ValidParams(caller, source, type, severity) ==
    /\ \/ source \in {"GL_DEBUG_SOURCE_APPLICATION", "GL_DEBUG_SOURCE_THIRD_PARTY"}
       \/ /\ source \in {"GL_DEBUG_SOURCE_API", "GL_DEBUG_SOURCE_SHADER_COMPILER",
                         "GL_DEBUG_SOURCE_WINDOW_SYSTEM", "GL_DEBUG_SOURCE_OTHER"}
          /\ caller # INSERT
       \/ source = "GL_DONT_CARE" /\ caller = CONTROL
    /\ \/ type \in {"GL_DEBUG_TYPE_ERROR", "GL_DEBUG_TYPE_DEPRECATED_BEHAVIOR",
                    "GL_DEBUG_TYPE_UNDEFINED_BEHAVIOR", "GL_DEBUG_TYPE_PERFORMANCE",
                    "GL_DEBUG_TYPE_PORTABILITY", "GL_DEBUG_TYPE_OTHER",
                    "GL_DEBUG_TYPE_MARKER"}
       \/ /\ type \in {"GL_DEBUG_TYPE_PUSH_GROUP", "GL_DEBUG_TYPE_POP_GROUP",
                       "GL_DONT_CARE"}
          /\ caller = CONTROL
    /\ \/ severity \in {"GL_DEBUG_SEVERITY_HIGH", "GL_DEBUG_SEVERITY_MEDIUM",
                        "GL_DEBUG_SEVERITY_LOW", "GL_DEBUG_SEVERITY_NOTIFICATION"}
       \/ severity = "GL_DONT_CARE" /\ caller = CONTROL

validate_params(M, caller, source, type, severity) ==
    IF ValidParams(caller, source, type, severity)
    THEN [M EXCEPT !.ret = TRUE]
    ELSE [_mesa_error(M, "GL_INVALID_ENUM") EXCEPT !.ret = FALSE]

validate_length(M, length) ==
    IF length >= MAX_DEBUG_MESSAGE_LENGTH
    THEN [_mesa_error(M, "GL_INVALID_VALUE") EXCEPT !.ret = FALSE]
    ELSE [M EXCEPT !.ret = TRUE]

_mesa_DebugMessageInsert(M, source, type, id, severity, length, buf) ==
    LET M1 == validate_params(M, INSERT, source, type, severity)
        len == IF length < 0 THEN strlen(buf) ELSE length
        M2 == validate_length(M1, len)
    IN  IF ~M1.ret THEN M1
        ELSE IF ~M2.ret THEN M2
        ELSE log_msg(M2, gl_enum_to_debug_source(source),
                     gl_enum_to_debug_type(type), id,
                     gl_enum_to_debug_severity(severity), len, buf)

\* What glGetDebugMessageLog has written so far: the number of messages, the
\* arrays, the text buffer, and the room left in the text buffer.
NoOutput ==
    [ret |-> 0, lengths |-> <<>>, severities |-> <<>>, sources |-> <<>>,
     types |-> <<>>, ids |-> <<>>, messageLog |-> <<>>]

\* if (logSize < msg->length && messageLog != NULL) break;
\* A fit check that never stops the loop.
DoesNotFit_Never(logSize, length, hasLog) == FALSE

\* A fit check that lets a message one byte too long through.
DoesNotFit_Loose(logSize, length, hasLog) == logSize + 1 < length /\ hasLog

\* A fit check that is made without a text buffer too.
DoesNotFit_Always(logSize, length, hasLog) == logSize < length

DoesNotFit(logSize, length, hasLog) == logSize < length /\ hasLog

\* The for loop of _mesa_GetDebugMessageLog.  hasLog tells messageLog != NULL;
\* the other output arrays are given.
RECURSIVE GetLogLoop(_, _, _, _, _)
GetLogLoop(M, out, count, logSize, hasLog) ==
    LET i == debug_fetch_message(M.debug)
        msg == M.debug.Log.Messages[i]
        out1 == [ret |-> out.ret + 1,
                 lengths |-> Append(out.lengths, msg.length),
                 severities |-> Append(out.severities,
                                       EnumAt(debug_severity_enums, msg.severity)),
                 sources |-> Append(out.sources,
                                    EnumAt(debug_source_enums, msg.source)),
                 types |-> Append(out.types, EnumAt(debug_type_enums, msg.type)),
                 ids |-> Append(out.ids, msg.id),
                 messageLog |-> IF hasLog
                                THEN out.messageLog \o
                                     strncpy(msg.message.bytes, msg.length)
                                ELSE out.messageLog]
        A == IF hasLog /\ msg.message.bytes[msg.length] # NUL
             THEN {"_mesa_GetDebugMessageLog: msg->message[msg->length-1] == 0"}
             ELSE {}
        M1 == debug_delete_messages([M EXCEPT !.asserts = @ \cup A], 1)
    IN  IF ~(out.ret < count) THEN [M EXCEPT !.ret = out]
        ELSE IF i = -1 THEN [M EXCEPT !.ret = out]
        ELSE IF DoesNotFit(logSize, msg.length, hasLog) THEN [M EXCEPT !.ret = out]
        ELSE GetLogLoop(M1, out1, count,
                        IF hasLog THEN logSize - msg.length ELSE logSize, hasLog)

_mesa_GetDebugMessageLog(M, count, logSize, hasLog) ==
    LET size == IF ~hasLog THEN 0 ELSE logSize
        M1 == _mesa_get_debug_state(M)
    IN  IF size < 0
        THEN [_mesa_error(M, "GL_INVALID_VALUE") EXCEPT !.ret = NoOutput]
        ELSE IF ~M1.live THEN [M1 EXCEPT !.ret = NoOutput]
        ELSE GetLogLoop(M1, NoOutput, count, size, hasLog)

\* for (i = 0; i < count; i++) debug_set_message_enable(..., ids[i], enabled)
RECURSIVE SetEachId(_, _, _, _, _, _)
SetEachId(M, source, type, ids, count, enabled) ==
    IF count = 0 THEN M
    ELSE SetEachId(debug_set_message_enable(M, source, type, Head(ids), enabled),
                   source, type, Tail(ids), count - 1, enabled)

_mesa_DebugMessageControl(M, gl_source, gl_type, gl_severity, count, ids, enabled) ==
    LET source == gl_enum_to_debug_source(gl_source)
        type == gl_enum_to_debug_type(gl_type)
        severity == gl_enum_to_debug_severity(gl_severity)
        M1 == validate_params(M, CONTROL, gl_source, gl_type, gl_severity)
        M2 == _mesa_get_debug_state(M1)
    IN  IF count < 0 THEN _mesa_error(M, "GL_INVALID_VALUE")
        ELSE IF ~M1.ret THEN M1
        ELSE IF count # 0 /\ (gl_severity # "GL_DONT_CARE" \/ gl_type = "GL_DONT_CARE"
                                \/ gl_source = "GL_DONT_CARE")
        THEN _mesa_error(M1, "GL_INVALID_OPERATION")
        ELSE IF ~M2.live THEN M2
        ELSE IF count # 0
        THEN SetEachId(M2, source, type, ids, count, enabled)
        ELSE debug_set_message_enable_all(M2, source, type, severity, enabled)

_mesa_DebugMessageCallback(M, callback, userParam) ==
    LET M1 == _mesa_get_debug_state(M)
    IN  IF M1.live
        THEN [M1 EXCEPT !.debug.Callback = callback, !.debug.CallbackData = userParam]
        ELSE M1

_mesa_set_debug_state_int(M, pname, val) ==
    LET M1 == _mesa_get_debug_state(M)
    IN  IF ~M1.live THEN [M1 EXCEPT !.ret = FALSE]
        ELSE IF pname = "GL_DEBUG_OUTPUT"
        THEN [M1 EXCEPT !.debug.DebugOutput = (val # 0), !.ret = TRUE]
        ELSE IF pname = "GL_DEBUG_OUTPUT_SYNCHRONOUS_ARB"
        THEN [M1 EXCEPT !.debug.SyncOutput = (val # 0), !.ret = TRUE]
        ELSE [M1 EXCEPT !.ret = TRUE,
                        !.asserts = @ \cup {"unknown debug output param"}]

\* A stack that counts as full one level late.
StackIsFull_Late(d) == d.GroupStackDepth >= MAX_DEBUG_GROUP_STACK_DEPTH

\* if (debug->GroupStackDepth >= MAX_DEBUG_GROUP_STACK_DEPTH-1)
StackIsFull(d) == d.GroupStackDepth >= MAX_DEBUG_GROUP_STACK_DEPTH - 1

\* if (debug->GroupStackDepth <= 0)
StackIsEmpty(d) == d.GroupStackDepth <= 0

_mesa_PushDebugGroup(M, source, id, length, message) ==
    LET M1 == _mesa_get_debug_state(M)
        len == IF length < 0 THEN strlen(message) ELSE length
        M2 == validate_length(M1, len)
        M3 == log_msg(M2, gl_enum_to_debug_source(source),
                      MESA_DEBUG_TYPE_PUSH_GROUP, id,
                      MESA_DEBUG_SEVERITY_NOTIFICATION, len, message)
        emptySlot == debug_get_group_message(M3.debug)
        M4 == debug_message_store(M3, M3.debug.GroupMessages[emptySlot],
                  gl_enum_to_debug_source(source),
                  gl_enum_to_debug_type("GL_DEBUG_TYPE_PUSH_GROUP"), id,
                  gl_enum_to_debug_severity("GL_DEBUG_SEVERITY_NOTIFICATION"),
                  len, message)
        M5 == [M4 EXCEPT !.debug.GroupMessages[emptySlot] = M4.ret]
    IN  IF ~M1.live THEN M1
        ELSE IF StackIsFull(M1.debug)
        THEN _mesa_error(M1, "GL_STACK_OVERFLOW")
        ELSE IF source \notin {"GL_DEBUG_SOURCE_APPLICATION",
                               "GL_DEBUG_SOURCE_THIRD_PARTY"}
        THEN _mesa_error(M1, "GL_INVALID_ENUM")
        ELSE IF ~M2.ret THEN M2
        ELSE debug_push_group(M5)

\* A pop that submits the pop-group message before it pops the stack.
_mesa_PopDebugGroup_LogFirst(M) ==
    LET M1 == _mesa_get_debug_state(M)
        below == M1.debug.GroupStackDepth - 1
        gdmessage == M1.debug.GroupMessages[below]
        M2 == log_msg(M1, gdmessage.source,
                      gl_enum_to_debug_type("GL_DEBUG_TYPE_POP_GROUP"),
                      gdmessage.id,
                      gl_enum_to_debug_severity("GL_DEBUG_SEVERITY_NOTIFICATION"),
                      gdmessage.length, gdmessage.message.bytes)
        M3 == debug_pop_group(M2)
        M4 == debug_message_clear(M3, gdmessage)
    IN  IF ~M1.live THEN M1
        ELSE IF StackIsEmpty(M1.debug)
        THEN _mesa_error(M1, "GL_STACK_UNDERFLOW")
        ELSE [M4 EXCEPT !.debug.GroupMessages[below] = M4.ret]

_mesa_PopDebugGroup(M) ==
    LET M1 == _mesa_get_debug_state(M)
        M2 == debug_pop_group(M1)
        gdmessage == M2.debug.GroupMessages[debug_get_group_message(M2.debug)]
        M3 == log_msg(M2, gdmessage.source,
                      gl_enum_to_debug_type("GL_DEBUG_TYPE_POP_GROUP"),
                      gdmessage.id,
                      gl_enum_to_debug_severity("GL_DEBUG_SEVERITY_NOTIFICATION"),
                      gdmessage.length, gdmessage.message.bytes)
        M4 == debug_message_clear(M3, gdmessage)
    IN  IF ~M1.live THEN M1
        ELSE IF StackIsEmpty(M1.debug)
        THEN _mesa_error(M1, "GL_STACK_UNDERFLOW")
        ELSE [M4 EXCEPT
                !.debug.GroupMessages[debug_get_group_message(M2.debug)] = M4.ret]

----------------------------------------------------------------------------
(* The state machine.                                                       *)

\* No operation on namespace yet.
NoNsOp ==
    [name |-> "none", id |-> 0, severity |-> 0, enabled |-> FALSE, ret |-> TRUE,
     had |-> 0,
     prev |-> [name |-> "none", id |-> 0, enabled |-> FALSE, ret |-> TRUE,
               had |-> 0]]

\* The number of id cells and of threads in the runs about debug_get_id.
MaxCells == 2

MaxThreads == 2

\* The static id cells the threads of a run call debug_get_id on, the threads,
\* and a thread that is not inside debug_get_id.
Cells == 1..MaxCells

Threads == 1..MaxThreads

Idle == [at |-> "idle", cell |-> 0]

NoOp ==
    [name |-> "none", args |-> <<>>, errors |-> <<>>, events |-> <<>>,
     asserts |-> {}, notes |-> {}, out |-> NoOutput]

Init ==
    /\ live = FALSE
    /\ debug = ZeroDebug
    /\ heap = [a \in GroupAddrs |-> FreeBlock]
    /\ ntext = 0
    /\ NextDynamicID = 1
    /\ oom_msg_id = 0
    /\ error_msg_id = 0
    /\ op = NoOp
    /\ calls = 0
    /\ sent = <<>>
    /\ got = <<>>
    /\ saved = <<>>
    /\ namespace = debug_namespace_init
    /\ nsop = NoNsOp
    /\ idsSet = {}
    /\ slot = [c \in Cells |-> 0]
    /\ DynamicIDMutex = 0
    /\ pc = [t \in Threads |-> Idle]

\* The state after an entry point returned M.
Return(M, name, args, out) ==
    /\ live' = M.live
    /\ debug' = M.debug
    /\ heap' = M.heap
    /\ ntext' = M.ntext
    /\ NextDynamicID' = M.NextDynamicID
    /\ oom_msg_id' = M.oom_msg_id
    /\ error_msg_id' = M.error_msg_id
    /\ op' = [name |-> name, args |-> args, errors |-> M.errors,
              events |-> M.events, asserts |-> M.asserts, notes |-> M.notes,
              out |-> out]
    /\ UNCHANGED <<namespace, nsop, idsSet, slot, DynamicIDMutex, pc>>

DebugMessageInsert(source, type, id, severity, length, buf, fail) ==
    Return(_mesa_DebugMessageInsert(Machine(fail), source, type, id, severity,
                                    length, buf),
           "DebugMessageInsert",
           [source |-> source, type |-> type, id |-> id, severity |-> severity,
            length |-> length, buf |-> buf],
           NoOutput)

GetDebugMessageLog(count, logSize, hasLog, fail) ==
    LET M == _mesa_GetDebugMessageLog(Machine(fail), count, logSize, hasLog)
    IN  Return(M, "GetDebugMessageLog",
               [count |-> count, logSize |-> logSize, hasLog |-> hasLog], M.ret)

DebugMessageControl(gl_source, gl_type, gl_severity, count, ids, enabled, fail) ==
    Return(_mesa_DebugMessageControl(Machine(fail), gl_source, gl_type, gl_severity,
                                     count, ids, enabled),
           "DebugMessageControl",
           [source |-> gl_source, type |-> gl_type, severity |-> gl_severity,
            count |-> count, ids |-> ids, enabled |-> enabled],
           NoOutput)

DebugMessageCallback(callback, userParam, fail) ==
    Return(_mesa_DebugMessageCallback(Machine(fail), callback, userParam),
           "DebugMessageCallback",
           [callback |-> callback, userParam |-> userParam], NoOutput)

SetDebugStateInt(pname, val, fail) ==
    Return(_mesa_set_debug_state_int(Machine(fail), pname, val),
           "set_debug_state_int", [pname |-> pname, val |-> val], NoOutput)

PushDebugGroup(source, id, length, message, fail) ==
    Return(_mesa_PushDebugGroup(Machine(fail), source, id, length, message),
           "PushDebugGroup",
           [source |-> source, id |-> id, length |-> length, message |-> message],
           NoOutput)

PopDebugGroup(fail) ==
    Return(_mesa_PopDebugGroup(Machine(fail)), "PopDebugGroup", <<>>, NoOutput)

FreeErrorsData ==
    Return(_mesa_free_errors_data(Machine({})), "free_errors_data", <<>>, NoOutput)

----------------------------------------------------------------------------
(* The inputs the model draws.                                              *)

\* Which malloc calls of one entry point fail: none, one of the first
\* MaxFail, or all of the first MaxFail.
MaxFail == 2
Fails == {{}} \cup {{k} : k \in 1..MaxFail} \cup {1..MaxFail}

\* A caller's text of n characters.
Text(n) == CString(n, 97)

\* The filter changes a caller makes in a bounded run: a blanket change, a
\* change by id, and a call the entry point rejects.
Controls ==
    {<<"GL_DONT_CARE", "GL_DONT_CARE", "GL_DONT_CARE", 0, <<>>, TRUE>>,
     <<"GL_DEBUG_SOURCE_APPLICATION", "GL_DEBUG_TYPE_MARKER", "GL_DONT_CARE",
       1, <<1>>, FALSE>>,
     <<"GL_DEBUG_SOURCE_APPLICATION", "GL_DONT_CARE", "GL_DONT_CARE",
       1, <<1>>, TRUE>>}

\* The fetches a caller makes in a bounded run: <<count, logSize, messageLog
\* given>>.
Fetches ==
    {<<1, 0, FALSE>>, <<MAX_DEBUG_LOGGED_MESSAGES, 0, FALSE>>, <<2, 3, TRUE>>,
     <<1, -1, TRUE>>}

\* A run of at most MaxCalls entry points, in any order.
MaxCalls == 5
Call == calls < MaxCalls /\ calls' = calls + 1 /\ UNCHANGED <<sent, got, saved>>

Next ==
    \/ /\ Call
       /\ \E val \in {0, 1}, fail \in Fails :
              SetDebugStateInt("GL_DEBUG_OUTPUT", val, fail)
    \/ /\ Call
       /\ \E cb \in {NULL, 1}, fail \in Fails :
              DebugMessageCallback(cb, cb, fail)
    \/ /\ Call
       /\ \E length \in {-1, MAX_DEBUG_MESSAGE_LENGTH}, fail \in Fails :
              DebugMessageInsert("GL_DEBUG_SOURCE_APPLICATION",
                                 "GL_DEBUG_TYPE_MARKER", 1,
                                 "GL_DEBUG_SEVERITY_HIGH", length, Text(1), fail)
    \/ /\ Call
       /\ \E a \in Fetches, fail \in Fails :
              GetDebugMessageLog(a[1], a[2], a[3], fail)
    \/ /\ Call
       /\ \E c \in Controls, fail \in Fails :
              DebugMessageControl(c[1], c[2], c[3], c[4], c[5], c[6], fail)
    \/ /\ Call
       /\ \E source \in {"GL_DEBUG_SOURCE_APPLICATION", "GL_DEBUG_SOURCE_OTHER"},
             fail \in Fails :
              PushDebugGroup(source, 1, -1, Text(2), fail)
    \/ /\ Call
       /\ \E fail \in Fails : PopDebugGroup(fail)

Spec == Init /\ [][Next]_vars

----------------------------------------------------------------------------
(* The log alone: messages of three lengths are inserted and fetched, with  *)
(* and without a text buffer, in runs of any length.                        *)

TextLengths == {2, 4, 9}

\* In these runs the first malloc call of an entry point fails or none does.
FirstFails == {{}, {1}}

LogFetches ==
    {<<count, size[1], size[2]>> :
        count \in {1, MAX_DEBUG_LOGGED_MESSAGES},
        size \in {<<0, FALSE>>, <<0, TRUE>>, <<12, TRUE>>, <<12, FALSE>>}}

NextLog ==
    \/ /\ UNCHANGED <<calls, sent, got, saved>>
       /\ \E fail \in FirstFails : SetDebugStateInt("GL_DEBUG_OUTPUT", 1, fail)
    \/ /\ UNCHANGED <<calls, sent, got, saved>>
       /\ \E n \in TextLengths, fail \in FirstFails :
              DebugMessageInsert("GL_DEBUG_SOURCE_APPLICATION",
                                 "GL_DEBUG_TYPE_MARKER", 1,
                                 "GL_DEBUG_SEVERITY_HIGH", -1, Text(n), fail)
    \/ /\ UNCHANGED <<calls, sent, got, saved>>
       /\ \E a \in LogFetches, fail \in FirstFails :
              GetDebugMessageLog(a[1], a[2], a[3], fail)

SpecLog == Init /\ [][NextLog]_vars

(* The log filled beyond its capacity: messages numbered 1, 2, ... by their *)
(* ids are inserted, up to MaxExtra more than the log holds, and fetched    *)
(* only after the last insertion.  sent lists the ids handed to the log,    *)
(* got what the fetches returned.                                           *)

MaxExtra == 2

NextRing ==
    \/ /\ UNCHANGED <<calls, sent, got, saved>>
       /\ \E fail \in FirstFails : SetDebugStateInt("GL_DEBUG_OUTPUT", 1, fail)
    \/ /\ got = <<>>
       /\ Len(sent) < MAX_DEBUG_LOGGED_MESSAGES + MaxExtra
       /\ \E fail \in FirstFails :
              DebugMessageInsert("GL_DEBUG_SOURCE_APPLICATION",
                                 "GL_DEBUG_TYPE_MARKER", Len(sent) + 1,
                                 "GL_DEBUG_SEVERITY_HIGH", -1, Text(1), fail)
       /\ sent' = IF op'.events # <<>> THEN Append(sent, Len(sent) + 1) ELSE sent
       /\ UNCHANGED <<calls, got, saved>>
    \/ /\ \E count \in 1..2, hasLog \in BOOLEAN, fail \in FirstFails :
              GetDebugMessageLog(count, MAX_DEBUG_MESSAGE_LENGTH, hasLog, fail)
       /\ got' = got \o [j \in 1..op'.out.ret |->
                            [id |-> op'.out.ids[j], source |-> op'.out.sources[j]]]
       /\ UNCHANGED <<calls, sent, saved>>

SpecRing == Init /\ [][NextRing]_vars

----------------------------------------------------------------------------
(* The filters alone: glDebugMessageControl with accepted and rejected      *)
(* combinations of wildcards and ids, at any depth of the group stack, in   *)
(* runs of at most MaxControlCalls entry points.                            *)

ControlIds == {<<>>, <<1>>, <<1, 2>>}

MaxControlCalls == 3

ControlCall ==
    calls < MaxControlCalls /\ calls' = calls + 1 /\ UNCHANGED <<sent, got, saved>>

NextControl ==
    \/ /\ ControlCall
       /\ \E fail \in FirstFails : SetDebugStateInt("GL_DEBUG_OUTPUT", 1, fail)
    \/ /\ ControlCall
       /\ \E gl_source \in {"GL_DEBUG_SOURCE_APPLICATION", "GL_DONT_CARE"},
             gl_type \in {"GL_DEBUG_TYPE_MARKER", "GL_DONT_CARE"},
             gl_severity \in {"GL_DEBUG_SEVERITY_LOW", "GL_DONT_CARE"},
             ids \in ControlIds, enabled \in BOOLEAN, fail \in FirstFails :
              DebugMessageControl(gl_source, gl_type, gl_severity, Len(ids), ids,
                                  enabled, fail)
    \/ /\ ControlCall
       /\ \E fail \in FirstFails :
              PushDebugGroup("GL_DEBUG_SOURCE_APPLICATION", 1, -1, Text(2), fail)
    \/ /\ ControlCall
       /\ \E fail \in FirstFails : PopDebugGroup(fail)

SpecControl == Init /\ [][NextControl]_vars

(* The life of one context, ended by _mesa_free_errors_data: at most        *)
(* MaxCalls entry points that allocate and free groups and messages, then   *)
(* the destruction, after which the context is not used.                    *)

Alive == op.name # "free_errors_data"

NextFree ==
    \/ /\ Alive /\ Call
       /\ \E fail \in FirstFails : SetDebugStateInt("GL_DEBUG_OUTPUT", 1, fail)
    \/ /\ Alive /\ Call
       /\ \E fail \in FirstFails :
              DebugMessageInsert("GL_DEBUG_SOURCE_APPLICATION",
                                 "GL_DEBUG_TYPE_MARKER", 1,
                                 "GL_DEBUG_SEVERITY_HIGH", -1, Text(1), fail)
    \/ /\ Alive /\ Call
       /\ \E fail \in FirstFails : GetDebugMessageLog(1, 0, FALSE, fail)
    \/ /\ Alive /\ Call
       /\ \E fail \in FirstFails :
              DebugMessageControl("GL_DEBUG_SOURCE_APPLICATION",
                                  "GL_DEBUG_TYPE_MARKER", "GL_DONT_CARE",
                                  1, <<1>>, FALSE, fail)
    \/ /\ Alive /\ Call
       /\ \E fail \in FirstFails :
              PushDebugGroup("GL_DEBUG_SOURCE_APPLICATION", 1, -1, Text(2), fail)
    \/ /\ Alive /\ Call
       /\ \E fail \in FirstFails : PopDebugGroup(fail)
    \/ /\ Alive
       /\ FreeErrorsData
       /\ UNCHANGED <<calls, sent, got, saved>>

SpecFree == Init /\ [][NextFree]_vars

(* One namespace alone: debug_namespace_set, debug_namespace_set_all and    *)
(* debug_namespace_copy are applied to it in any order, each malloc         *)
(* succeeding or failing.  In nsop, had is the number of elements the       *)
(* namespace held before the operation (for the id, where it has one), and  *)
(* prev is the operation before it.                                         *)

NsIds == {1, 2}

\* The number of elements of the list with the given ID.
CountId(elems, id) == Cardinality({i \in 1..Len(elems) : elems[i].ID = id})

NsFrame ==
    UNCHANGED <<live, debug, heap, ntext, NextDynamicID, oom_msg_id, error_msg_id,
                op, calls, sent, got, saved, slot, DynamicIDMutex, pc>>

\* What nsop keeps of the operation before the last.
Prev == [name |-> nsop.name, id |-> nsop.id, enabled |-> nsop.enabled,
         ret |-> nsop.ret, had |-> nsop.had]

NamespaceSet(id, enabled, mallocOk) ==
    LET r == debug_namespace_set(namespace, id, enabled, mallocOk)
    IN  /\ namespace' = r.ns
        /\ nsop' = [name |-> "set", id |-> id, severity |-> 0, enabled |-> enabled,
                    ret |-> r.ret, had |-> CountId(namespace.Elements, id),
                    prev |-> Prev]
        /\ idsSet' = idsSet \cup {id}
        /\ NsFrame

NamespaceSetAll(severity, enabled) ==
    /\ namespace' = debug_namespace_set_all(namespace, severity, enabled)
    /\ nsop' = [name |-> "set_all", id |-> 0, severity |-> severity,
                enabled |-> enabled, ret |-> TRUE,
                had |-> Len(namespace.Elements), prev |-> Prev]
    /\ idsSet' = idsSet
    /\ NsFrame

\* debug_namespace_copy(dst, src), after which the run goes on with dst when
\* every malloc succeeded, and with src when one failed and dst was cleared.
NamespaceCopy(mallocOk) ==
    LET ok == mallocOk \/ namespace.Elements = <<>>
    IN  /\ namespace' = IF ok THEN debug_namespace_copy(namespace) ELSE namespace
        /\ nsop' = [name |-> "copy", id |-> 0, severity |-> 0, enabled |-> FALSE,
                    ret |-> ok, had |-> Len(namespace.Elements), prev |-> Prev]
        /\ idsSet' = idsSet
        /\ NsFrame

NextNs ==
    \/ \E id \in NsIds, enabled \in BOOLEAN, mallocOk \in BOOLEAN :
           NamespaceSet(id, enabled, mallocOk)
    \/ \E severity \in Severities \cup {MESA_DEBUG_SEVERITY_COUNT},
          enabled \in BOOLEAN :
           NamespaceSetAll(severity, enabled)
    \/ \E mallocOk \in BOOLEAN : NamespaceCopy(mallocOk)

SpecNs == Init /\ [][NextNs]_vars

----------------------------------------------------------------------------
(* debug_get_id under threads: each thread calls debug_get_id on one of the *)
(* static id cells and runs it statement by statement.  The first test of   *)
(* *id is made without the mutex, so it races with the assignment another   *)
(* thread makes under the mutex: it sees the value of the cell or the zero  *)
(* the cell held before.  The test under the mutex sees the cell.           *)

IdFrame ==
    UNCHANGED <<live, debug, heap, ntext, oom_msg_id, error_msg_id, op, calls,
                sent, got, saved, namespace, nsop, idsSet>>

\* A test that finds every cell without an id.
IdIsUnset_Always(v) == TRUE

\* if (!(*id))
IdIsUnset(v) == v = 0

\* debug_get_id(&slot[c]) is called: the thread is at the test outside the mutex.
GetIdCall(t, c) ==
    /\ pc[t] = Idle
    /\ pc' = [pc EXCEPT ![t] = [at |-> "test", cell |-> c]]
    /\ UNCHANGED <<slot, DynamicIDMutex, NextDynamicID>>
    /\ IdFrame

\* if (!(*id)), outside the mutex; seen is what the read returns.
GetIdTest(t, seen) ==
    /\ pc[t].at = "test"
    /\ seen \in {slot[pc[t].cell], 0}
    /\ pc' = [pc EXCEPT ![t] = IF IdIsUnset(seen)
                               THEN [at |-> "lock", cell |-> pc[t].cell]
                               ELSE Idle]
    /\ UNCHANGED <<slot, DynamicIDMutex, NextDynamicID>>
    /\ IdFrame

\* mtx_lock(&DynamicIDMutex)
GetIdLock(t) ==
    /\ pc[t].at = "lock"
    /\ DynamicIDMutex = 0
    /\ DynamicIDMutex' = t
    /\ pc' = [pc EXCEPT ![t] = [at |-> "assign", cell |-> pc[t].cell]]
    /\ UNCHANGED <<slot, NextDynamicID>>
    /\ IdFrame

\* if (!(*id)) *id = NextDynamicID++;
GetIdAssign(t) ==
    /\ pc[t].at = "assign"
    /\ IF IdIsUnset(slot[pc[t].cell])
       THEN /\ slot' = [slot EXCEPT ![pc[t].cell] = NextDynamicID]
            /\ NextDynamicID' = (NextDynamicID + 1) % GLuintRange
       ELSE UNCHANGED <<slot, NextDynamicID>>
    /\ pc' = [pc EXCEPT ![t] = [at |-> "unlock", cell |-> pc[t].cell]]
    /\ UNCHANGED DynamicIDMutex
    /\ IdFrame

\* mtx_unlock(&DynamicIDMutex)
GetIdUnlock(t) ==
    /\ pc[t].at = "unlock"
    /\ DynamicIDMutex' = 0
    /\ pc' = [pc EXCEPT ![t] = Idle]
    /\ UNCHANGED <<slot, NextDynamicID>>
    /\ IdFrame

NextIds ==
    \/ \E t \in Threads, c \in Cells : GetIdCall(t, c)
    \/ \E t \in Threads, seen \in 0..MaxCells : GetIdTest(t, seen)
    \/ \E t \in Threads : GetIdLock(t)
    \/ \E t \in Threads : GetIdAssign(t)
    \/ \E t \in Threads : GetIdUnlock(t)

SpecIds == Init /\ [][NextIds]_vars

----------------------------------------------------------------------------
(* Views of the state used by the properties.                               *)

Min(a, b) == IF a < b THEN a ELSE b

Range(seq) == {seq[i] : i \in 1..Len(seq)}

\* The ids the properties look at: the ones the callers use and one more.
ProbeIds == 1..3

\* What debug_namespace_get answers for every message, in the group that
\* stack slot i of state (h, d) points to.
FilterView(h, d, i) ==
    [s \in Sources |-> [t \in Types |-> [id \in ProbeIds |-> [sev \in Severities |->
        debug_namespace_get(h[d.Groups[i]].Namespaces[s][t], id, sev)]]]]

\* The namespaces of the groups the slots 0..depth point to.
StackGroups(h, d) ==
    [i \in 0..d.GroupStackDepth |-> h[d.Groups[i]].Namespaces]

\* The messages in the log, oldest first.
Fifo(log) ==
    [j \in 1..log.NumMessages |->
        log.Messages[(log.NextMessage + j - 1) % MAX_DEBUG_LOGGED_MESSAGES]]

Lengths(msgs) == [j \in 1..Len(msgs) |-> msgs[j].length]

RECURSIVE Sum(_, _)
Sum(seq, n) == IF n = 0 THEN 0 ELSE seq[n] + Sum(seq, n - 1)

\* The text an event carries: the characters strncpy would take from it.
EventText(e) == SubSeq(e.buf, 1, Min(e.len, strlen(e.buf)))

----------------------------------------------------------------------------
(* Properties.                                                              *)

\* C1: with the stack at depth d >= 1, a glDebugMessageControl call leaves
\* what debug_namespace_get answers in the group of slot d-1 unchanged, for
\* every source, type, id and severity.
C1_CopyOnWriteIsolation ==
    [][(/\ live
        /\ op'.name = "DebugMessageControl"
        /\ debug.GroupStackDepth >= 1)
       => FilterView(heap', debug', debug.GroupStackDepth - 1)
            = FilterView(heap, debug, debug.GroupStackDepth - 1)]_vars

\* C2: when debug_make_group_writable fails inside a glDebugMessageControl
\* call, no namespace of any group a stack slot points to is changed.
C2_FailedCopyLeavesFilters ==
    [][(/\ live
        /\ op'.name = "DebugMessageControl"
        /\ "make_group_writable failed" \in op'.notes)
       => StackGroups(heap', debug') = StackGroups(heap, debug)]_vars

\* C4: a message that reaches the log while it holds
\* MAX_DEBUG_LOGGED_MESSAGES messages is dropped: nothing is stored, neither
\* the text nor the out-of-memory message, and the count, the head and the
\* buffered messages stay as they were.
C4_FullLogDrops ==
    [][(/\ live
        /\ debug.Log.NumMessages = MAX_DEBUG_LOGGED_MESSAGES
        /\ debug.Callback = NULL
        /\ op'.name = "DebugMessageInsert"
        /\ op'.errors = <<>>
        /\ debug_is_message_enabled(Machine({}),
               gl_enum_to_debug_source(op'.args.source),
               gl_enum_to_debug_type(op'.args.type), op'.args.id,
               gl_enum_to_debug_severity(op'.args.severity)))
       => /\ debug'.Log = debug.Log
          /\ ntext' = ntext
          /\ oom_msg_id' = oom_msg_id
          /\ "out of memory message" \notin op'.notes]_vars

\* C4 happens: an enabled glDebugMessageInsert found the log full.
C4_Witness ==
    /\ op.name = "DebugMessageInsert"
    /\ op.events # <<>>
    /\ op.events[1].sink = "dropped"
    /\ debug.Log.NumMessages = MAX_DEBUG_LOGGED_MESSAGES

\* C5: the log always has 0 <= NumMessages <= MAX_DEBUG_LOGGED_MESSAGES and
\* 0 <= NextMessage < MAX_DEBUG_LOGGED_MESSAGES; an entry point that fetches r
\* messages (r is 0 for all but glGetDebugMessageLog) moves NextMessage
\* forward by r modulo the capacity and lowers NumMessages by r, apart from
\* the one message an entry point may add.
C5_LogIndices ==
    /\ [](/\ debug.Log.NumMessages \in 0..MAX_DEBUG_LOGGED_MESSAGES
          /\ debug.Log.NextMessage \in 0..(MAX_DEBUG_LOGGED_MESSAGES - 1))
    /\ [][/\ debug'.Log.NextMessage =
               (debug.Log.NextMessage + op'.out.ret) % MAX_DEBUG_LOGGED_MESSAGES
          /\ op'.out.ret <= debug.Log.NumMessages
          /\ debug'.Log.NumMessages - (debug.Log.NumMessages - op'.out.ret) \in {0, 1}
          /\ (op'.name = "GetDebugMessageLog" /\ op'.errors = <<>>) =>
               debug'.Log.NumMessages = debug.Log.NumMessages - op'.out.ret]_vars

\* C5 happens: fetches took the head once around the ring.
C5_Witness ==
    /\ op.name = "GetDebugMessageLog"
    /\ op.out.ret = MAX_DEBUG_LOGGED_MESSAGES
    /\ debug.Log.NextMessage = 0
    /\ debug.Log.NumMessages = 0

\* C3 as stated: once more messages were handed to the log than it holds,
\* and before any fetch, the log holds the last MAX_DEBUG_LOGGED_MESSAGES of
\* them (the first ones are the ones lost).
C3_FirstMessagesLost ==
    (got = <<>> /\ Len(sent) > MAX_DEBUG_LOGGED_MESSAGES) =>
        LET kept == Fifo(debug.Log)
            k == Len(sent) - MAX_DEBUG_LOGGED_MESSAGES
        IN  /\ Len(kept) = MAX_DEBUG_LOGGED_MESSAGES
            /\ \A j \in 1..Len(kept) :
                   \/ kept[j].message = StaticOom
                   \/ kept[j].id = sent[k + j]

\* C3, amended: of the messages handed to the log since it was empty, the
\* first MAX_DEBUG_LOGGED_MESSAGES are the ones retrievable, in the order they
\* came (each with its own id, or replaced by the out-of-memory message), and
\* the later ones are lost: what was fetched so far followed by what is still
\* in the log is that prefix.
C3_LastMessagesLost ==
    LET kept == Fifo(debug.Log)
        all == got \o [j \in 1..Len(kept) |->
                          [id |-> kept[j].id,
                           source |-> EnumAt(debug_source_enums, kept[j].source)]]
    IN  /\ Len(all) = Min(Len(sent), MAX_DEBUG_LOGGED_MESSAGES)
        /\ \A j \in 1..Len(all) :
               \/ all[j].source = "GL_DEBUG_SOURCE_OTHER"
               \/ all[j].id = sent[j] /\ all[j].source = "GL_DEBUG_SOURCE_APPLICATION"

\* C3 happens: more messages than the log holds were inserted, and all that
\* was kept has been fetched.
C3_Witness ==
    /\ Len(sent) = MAX_DEBUG_LOGGED_MESSAGES + MaxExtra
    /\ Len(got) = MAX_DEBUG_LOGGED_MESSAGES
    /\ debug.Log.NumMessages = 0
    /\ \A j \in 1..Len(got) : got[j].id = sent[j]

\* C6: a fetch with a text buffer returns the longest run of oldest messages,
\* no more than count, whose lengths (terminators included) add up to no more
\* than logSize; the returned messages leave the log, and the first message
\* that did not fit is the oldest one afterwards.
C6_PartialFit ==
    [][(/\ op'.name = "GetDebugMessageLog"
        /\ op'.args.hasLog
        /\ op'.args.logSize >= 0
        /\ live)
       => LET before == Fifo(debug.Log)
              L == Lengths(before)
              r == op'.out.ret
          IN  /\ r <= Min(op'.args.count, Len(before))
              /\ Sum(L, r) <= op'.args.logSize
              /\ r < Min(op'.args.count, Len(before)) =>
                     Sum(L, r + 1) > op'.args.logSize
              /\ op'.out.lengths = SubSeq(L, 1, r)
              /\ Len(op'.out.messageLog) = Sum(L, r)
              /\ \A j \in 1..(Len(before) - r) :
                     /\ Fifo(debug'.Log)[j].message = before[r + j].message
                     /\ Fifo(debug'.Log)[j].length = before[r + j].length
              /\ Len(Fifo(debug'.Log)) = Len(before) - r]_vars

\* C6 happens: a fetch stopped at a message that did not fit, after it had
\* returned one.
C6_Witness ==
    /\ op.name = "GetDebugMessageLog"
    /\ op.args.hasLog
    /\ op.out.ret = 1
    /\ op.args.count > 1
    /\ debug.Log.NumMessages >= 1
    /\ Fifo(debug.Log)[1].length > op.args.logSize - op.out.lengths[1]

\* C7 as stated: with messages of lengths 5, 10 and 3 in the log, a fetch of
\* at least 3 messages into a text buffer of 12 returns the first two and
\* leaves the third.
C7_TwoReturned ==
    [][(/\ op'.name = "GetDebugMessageLog"
        /\ op'.args.hasLog /\ op'.args.logSize = 12 /\ op'.args.count >= 3
        /\ Lengths(Fifo(debug.Log)) = <<5, 10, 3>>)
       => /\ op'.out.ret = 2
          /\ Lengths(Fifo(debug'.Log)) = <<3>>]_vars

\* C7, amended: with messages of lengths 5, 10 and 3 in the log, a fetch of
\* at least 3 messages into a text buffer of 12 returns the first message
\* only (5 + 10 > 12), and the second and the third stay in the log.
C7_OneReturned ==
    [][(/\ op'.name = "GetDebugMessageLog"
        /\ op'.args.hasLog /\ op'.args.logSize = 12 /\ op'.args.count >= 3
        /\ Lengths(Fifo(debug.Log)) = <<5, 10, 3>>)
       => /\ op'.out.ret = 1
          /\ op'.out.lengths = <<5>>
          /\ Lengths(Fifo(debug'.Log)) = <<10, 3>>]_vars

\* C7 happens: that fetch was made.
C7_Witness ==
    /\ op.name = "GetDebugMessageLog"
    /\ op.args.hasLog /\ op.args.logSize = 12 /\ op.args.count >= 3
    /\ op.out.lengths = <<5>>
    /\ Lengths(Fifo(debug.Log)) = <<10, 3>>

\* C8 as stated: a fetch whose text capacity is zero (no text buffer, or a
\* buffer of size 0) removes min(count, NumMessages) messages.
C8_ZeroCapacityDrains ==
    [][(/\ op'.name = "GetDebugMessageLog"
        /\ live
        /\ (~op'.args.hasLog \/ op'.args.logSize = 0))
       => op'.out.ret = Min(op'.args.count, debug.Log.NumMessages)]_vars

\* C8, amended: a fetch without a text buffer (its capacity then counts as
\* zero) copies no text and removes min(count, NumMessages) messages whatever
\* their lengths; a fetch with a text buffer of size 0 is stopped by the fit
\* check at once and removes nothing.
C8_NoBufferDrains ==
    [][(op'.name = "GetDebugMessageLog" /\ live)
       => /\ ~op'.args.hasLog =>
               /\ op'.out.ret = Min(op'.args.count, debug.Log.NumMessages)
               /\ op'.out.messageLog = <<>>
               /\ op'.out.lengths =
                     SubSeq(Lengths(Fifo(debug.Log)), 1, op'.out.ret)
               /\ debug'.Log.NumMessages = debug.Log.NumMessages - op'.out.ret
          /\ (op'.args.hasLog /\ op'.args.logSize = 0) =>
               /\ op'.out.ret = 0
               /\ debug'.Log = debug.Log]_vars

\* C8 happens: a fetch without a text buffer removed messages longer than
\* the size it was given.
C8_Witness ==
    /\ op.name = "GetDebugMessageLog"
    /\ ~op.args.hasLog
    /\ op.out.ret = MAX_DEBUG_LOGGED_MESSAGES
    /\ \A j \in 1..op.out.ret : op.out.lengths[j] > 0

\* C9: a glPushDebugGroup followed at once by glPopDebugGroup, both messages
\* enabled and no allocation failing, hands the sink two messages with the
\* same source, id, text and length, of types push-group and pop-group.
C9_PushPopPairing ==
    [][(/\ op.name = "PushDebugGroup" /\ op.errors = <<>> /\ op.events # <<>>
        /\ op'.name = "PopDebugGroup" /\ op'.events # <<>>
        /\ "out of memory message" \notin (op.notes \cup op'.notes))
       => LET push == op.events[1]
              pop == op'.events[1]
          IN  /\ push.type = MESA_DEBUG_TYPE_PUSH_GROUP
              /\ pop.type = MESA_DEBUG_TYPE_POP_GROUP
              /\ pop.source = push.source
              /\ pop.id = push.id
              /\ EventText(pop) = EventText(push)
              /\ pop.len = push.len]_vars

\* C10: the stack depth stays within 0..MAX_DEBUG_GROUP_STACK_DEPTH-1, the
\* indices of Groups and GroupMessages; glPushDebugGroup at the greatest depth
\* reports GL_STACK_OVERFLOW and glPopDebugGroup at depth 0 reports
\* GL_STACK_UNDERFLOW, both leaving the stack as it was, and neither error is
\* reported anywhere else.
C10_StackBounds ==
    /\ [](/\ debug.GroupStackDepth \in Slots
          /\ DOMAIN debug.Groups = Slots
          /\ DOMAIN debug.GroupMessages = Slots)
    /\ [][/\ (op'.name = "PushDebugGroup" /\ live') =>
               /\ ("GL_STACK_OVERFLOW" \in Range(op'.errors))
                     <=> (debug.GroupStackDepth = MAX_DEBUG_GROUP_STACK_DEPTH - 1)
               /\ ("GL_STACK_OVERFLOW" \in Range(op'.errors)) =>
                     /\ debug'.GroupStackDepth = debug.GroupStackDepth
                     /\ debug'.Groups = debug.Groups
                     /\ debug'.GroupMessages = debug.GroupMessages
          /\ (op'.name = "PopDebugGroup" /\ live') =>
               /\ ("GL_STACK_UNDERFLOW" \in Range(op'.errors))
                     <=> (debug.GroupStackDepth = 0)
               /\ ("GL_STACK_UNDERFLOW" \in Range(op'.errors)) =>
                     /\ debug'.GroupStackDepth = 0
                     /\ debug'.Groups = (IF live THEN debug.Groups ELSE debug'.Groups)
                     /\ debug'.GroupMessages = debug.GroupMessages]_vars

\* C10 happens: a push was refused at the greatest depth.
C10_Witness ==
    /\ op.name = "PushDebugGroup"
    /\ op.errors = <<"GL_STACK_OVERFLOW">>
    /\ debug.GroupStackDepth = MAX_DEBUG_GROUP_STACK_DEPTH - 1

\* C11: right after a debug_namespace_set(id, enabled) that returned true,
\* debug_namespace_get(id, severity) is `enabled` for every severity; and an
\* id that debug_namespace_set was never called with gets the bit of the
\* namespace's DefaultState, whatever set, set_all and copy calls were made.
C11_GetAfterSet ==
    /\ [][(nsop'.name = "set" /\ nsop'.ret) =>
            \A sev \in Severities :
                debug_namespace_get(namespace', nsop'.id, sev) = nsop'.enabled]_vars
    /\ [](\A id \in ProbeIds \ idsSet : \A sev \in Severities :
            debug_namespace_get(namespace, id, sev)
                = (Bit(namespace.DefaultState, sev) # 0))

\* C11 happens: a set made an id differ from an id that was never set.
C11_Witness ==
    /\ nsop.name = "set" /\ nsop.ret /\ nsop.id = 1 /\ nsop.enabled
    /\ 2 \notin idsSet
    /\ nsop.prev.name = "set_all"
    /\ debug_namespace_get(namespace, 1, MESA_DEBUG_SEVERITY_LOW)
    /\ ~debug_namespace_get(namespace, 2, MESA_DEBUG_SEVERITY_LOW)

\* C12: after any sequence of set, set_all (one severity or all) and copy, no
\* element of the namespace has the State the namespace has as DefaultState,
\* and no two elements have the same ID.
C12_OverridesPruned ==
    \A i \in 1..Len(namespace.Elements) :
        /\ namespace.Elements[i].State # namespace.DefaultState
        /\ \A j \in 1..Len(namespace.Elements) :
               namespace.Elements[j].ID = namespace.Elements[i].ID => j = i

\* C12 happens: a set_all of one severity made one of two elements equal to
\* the default and removed it.
C12_Witness ==
    /\ nsop.name = "set_all"
    /\ nsop.severity # MESA_DEBUG_SEVERITY_COUNT
    /\ nsop.had = 2
    /\ Len(namespace.Elements) = 1

\* C13 as stated: from any namespace, after set(id, enabled) and then
\* set_all(every severity, enabled) the namespace holds as many elements for
\* id as before the set.
C13_CountRestored ==
    [][(/\ nsop.name = "set" /\ nsop.ret
        /\ nsop'.name = "set_all"
        /\ nsop'.severity = MESA_DEBUG_SEVERITY_COUNT
        /\ nsop'.enabled = nsop.enabled)
       => CountId(namespace'.Elements, nsop.id) = nsop.had]_vars

\* C13, amended: after set(id, enabled) and then set_all(every severity,
\* enabled) the namespace holds no element at all, so none for id: that is
\* the number it held before the set exactly when id had no element then
\* (an element id had before the set is removed as well).
C13_AllOverridesGone ==
    [][(/\ nsop.name = "set" /\ nsop.ret
        /\ nsop'.name = "set_all"
        /\ nsop'.severity = MESA_DEBUG_SEVERITY_COUNT
        /\ nsop'.enabled = nsop.enabled)
       => /\ namespace'.Elements = <<>>
          /\ CountId(namespace'.Elements, nsop.id) = 0
          /\ (CountId(namespace'.Elements, nsop.id) = nsop.had) <=> (nsop.had = 0)
          /\ \A sev \in Severities :
                 debug_namespace_get(namespace', nsop.id, sev) = nsop.enabled]_vars

\* C13 happens: a set added an element for an id that had none, and the
\* set_all of every severity that followed removed it.
C13_Witness ==
    /\ nsop.name = "set_all"
    /\ nsop.severity = MESA_DEBUG_SEVERITY_COUNT
    /\ nsop.had >= 1
    /\ nsop.prev.name = "set" /\ nsop.prev.ret /\ nsop.prev.had = 0
    /\ nsop.prev.enabled = nsop.enabled
    /\ namespace.Elements = <<>>

\* The namespace of the top group that a glDebugMessageInsert with the
\* arguments a looks at, and whether the filters let its message through.
TopNamespace(a) ==
    heap[debug.Groups[debug.GroupStackDepth]]
        .Namespaces[gl_enum_to_debug_source(a.source)][gl_enum_to_debug_type(a.type)]

InsertEnabled(a) ==
    /\ debug.DebugOutput
    /\ debug_namespace_get(TopNamespace(a), a.id,
                           gl_enum_to_debug_severity(a.severity))

\* C14: a glDebugMessageInsert with valid arguments whose message is not
\* enabled (GL_DEBUG_OUTPUT is off, or the namespace of the top group has the
\* bit of the id and severity clear) does nothing: no callback call, nothing
\* logged or dropped, and the log, the group stack, the groups and the
\* pending group messages stay as they were.
C14_DisabledSubmitNoOp ==
    [][(/\ op'.name = "DebugMessageInsert"
        /\ op'.errors = <<>>
        /\ live
        /\ ~InsertEnabled(op'.args))
       => /\ op'.events = <<>>
          /\ debug' = debug
          /\ heap' = heap
          /\ ntext' = ntext
          /\ NextDynamicID' = NextDynamicID]_vars

\* C14 happens: with GL_DEBUG_OUTPUT on and a message in the log, an insert
\* was filtered out by the namespace of the top group.
C14_Witness ==
    /\ op.name = "DebugMessageInsert"
    /\ op.errors = <<>>
    /\ op.events = <<>>
    /\ live /\ debug.DebugOutput
    /\ debug.Log.NumMessages > 0
    /\ ~InsertEnabled(op.args)

\* C15: an enabled glDebugMessageInsert with valid arguments calls the
\* callback, if one is set, exactly once with the arguments it was given and
\* leaves the log alone; if none is set it calls no callback and the message
\* (or the out-of-memory message) becomes the newest of the log, or is
\* dropped when the log is full.  glDebugMessageCallback(NULL) unsets the
\* callback, so the inserts after it go to the log.
C15_SinkRouting ==
    [][/\ (/\ op'.name = "DebugMessageInsert"
           /\ op'.errors = <<>>
           /\ live
           /\ InsertEnabled(op'.args))
          => LET a == op'.args
                 e == op'.events[1]
                 old == Fifo(debug.Log)
                 new == Fifo(debug'.Log)
             IN  /\ Len(op'.events) = 1
                 /\ e.gl_source = a.source /\ e.gl_type = a.type
                 /\ e.gl_severity = a.severity /\ e.id = a.id
                 /\ e.len = strlen(a.buf) /\ e.buf = a.buf
                 /\ (debug.Callback # NULL) =>
                        /\ e.sink = "callback"
                        /\ debug'.Log = debug.Log
                        /\ ntext' = ntext
                 /\ (debug.Callback = NULL) =>
                        /\ e.sink = (IF LogIsFull(debug.Log) THEN "dropped" ELSE "log")
                        /\ e.sink = "dropped" => debug'.Log = debug.Log
                        /\ e.sink = "log" =>
                              /\ Len(new) = Len(old) + 1
                              /\ SubSeq(new, 1, Len(old)) = old
                              /\ debug'.Log.NextMessage = debug.Log.NextMessage
                              /\ \/ /\ new[Len(new)].message = HeapText(a.buf)
                                    /\ new[Len(new)].id = a.id
                                    /\ new[Len(new)].length = strlen(a.buf) + 1
                                 \/ new[Len(new)].message = StaticOom
       /\ (op'.name = "DebugMessageCallback" /\ live') =>
              /\ debug'.Callback = op'.args.callback
              /\ debug'.Log = (IF live THEN debug.Log ELSE debug'.Log)]_vars

\* C15 happens: with a message already in the log, an enabled insert went
\* to the callback.
C15_Witness ==
    /\ op.name = "DebugMessageInsert"
    /\ Len(op.events) = 1
    /\ op.events[1].sink = "callback"
    /\ debug.Callback # NULL
    /\ debug.Log.NumMessages > 0

\* The group the top slot of the stack points to, before and after a step.
TopGroup == debug.Groups[debug.GroupStackDepth]

TopGroupAfter == debug'.Groups[debug'.GroupStackDepth]

\* C16: glDebugMessageControl with valid enums and count > 0 is rejected
\* with GL_INVALID_OPERATION unless severity is GL_DONT_CARE and neither
\* source nor type is.  When accepted, every id of the list is set to
\* `enabled` in the one namespace (source, type) of the group the top slot
\* points to (an id whose element could not be allocated keeps its state);
\* the ids not in the list, the other namespaces of that group, the other
\* groups, the stack depth and the log are not touched.
C16_ControlWithIds ==
    [][(/\ op'.name = "DebugMessageControl"
        /\ op'.args.count > 0
        /\ live
        /\ ValidParams(CONTROL, op'.args.source, op'.args.type, op'.args.severity))
       => LET a == op'.args
              ok == /\ a.severity = "GL_DONT_CARE"
                    /\ a.source # "GL_DONT_CARE"
                    /\ a.type # "GL_DONT_CARE"
              src == gl_enum_to_debug_source(a.source)
              typ == gl_enum_to_debug_type(a.type)
              old == heap[TopGroup].Namespaces
              new == heap'[TopGroupAfter].Namespaces
          IN  /\ ~ok => /\ op'.errors = <<"GL_INVALID_OPERATION">>
                        /\ heap' = heap
                        /\ debug'.Groups = debug.Groups
              /\ ok => /\ op'.errors = <<>>
                       /\ \A i \in 1..a.count : \A sev \in Severities :
                              \/ debug_namespace_get(new[src][typ], a.ids[i], sev)
                                    = a.enabled
                              \/ /\ "namespace_set failed" \in op'.notes
                                 /\ debug_namespace_get(new[src][typ], a.ids[i], sev)
                                       = debug_namespace_get(old[src][typ],
                                                             a.ids[i], sev)
                       /\ \A id \in ProbeIds \ Range(a.ids) : \A sev \in Severities :
                              debug_namespace_get(new[src][typ], id, sev)
                                 = debug_namespace_get(old[src][typ], id, sev)
                       /\ new[src][typ].DefaultState = old[src][typ].DefaultState
                       /\ \A s \in Sources, t \in Types :
                              <<s, t>> # <<src, typ>> => new[s][t] = old[s][t]
                       /\ \A g \in GroupAddrs \ {TopGroupAfter} :
                              heap'[g] = heap[g]
                       /\ \A k \in Slots : k # debug.GroupStackDepth =>
                              debug'.Groups[k] = debug.Groups[k]
              /\ debug'.GroupStackDepth = debug.GroupStackDepth
              /\ debug'.GroupMessages = debug.GroupMessages
              /\ op'.errors = <<>> => debug'.Log = debug.Log]_vars

\* The errors with which an entry point rejects its arguments or the state
\* of the stack.
Rejections ==
    {"GL_INVALID_ENUM", "GL_INVALID_VALUE", "GL_INVALID_OPERATION",
     "GL_STACK_OVERFLOW", "GL_STACK_UNDERFLOW"}

Rejected ==
    /\ live
    /\ op'.name \in {"DebugMessageInsert", "DebugMessageControl",
                     "GetDebugMessageLog", "PushDebugGroup", "PopDebugGroup"}
    /\ op'.errors # <<>>
    /\ op'.errors[1] \in Rejections

\* C17 as stated: an entry point that rejects its call leaves the filters of
\* every group, the stack depth, the pending group messages and the log
\* (NumMessages, NextMessage, Messages) as they were.
C17_RejectedNoEffect ==
    [][Rejected =>
          /\ heap' = heap
          /\ debug'.Groups = debug.Groups
          /\ debug'.GroupStackDepth = debug.GroupStackDepth
          /\ debug'.GroupMessages = debug.GroupMessages
          /\ debug'.Log = debug.Log]_vars

\* C17, amended: an entry point that rejects its call leaves the filters of
\* every group, the stack depth and the pending group messages as they were,
\* and does nothing of what it was called for; but the report of the error
\* is itself a message (source API, type error, severity high, the id of
\* _mesa_error): if GL_DEBUG_OUTPUT is on and the top group enables it, it is
\* handed to the callback, or, with no callback, it becomes the newest
\* message of the log (as itself or as the out-of-memory message) unless the
\* log is full.  Otherwise the log stays as it was.
C17_RejectedOnlyReports ==
    [][Rejected =>
          LET reported ==
                  /\ debug.DebugOutput
                  /\ debug_namespace_get(
                         heap[TopGroup].Namespaces[MESA_DEBUG_SOURCE_API]
                                                  [MESA_DEBUG_TYPE_ERROR],
                         error_msg_id', MESA_DEBUG_SEVERITY_HIGH)
              old == Fifo(debug.Log)
              new == Fifo(debug'.Log)
          IN  /\ Len(op'.errors) = 1
              /\ error_msg_id' # 0
              /\ heap' = heap
              /\ debug'.Groups = debug.Groups
              /\ debug'.GroupStackDepth = debug.GroupStackDepth
              /\ debug'.GroupMessages = debug.GroupMessages
              /\ debug'.Callback = debug.Callback
              /\ debug'.DebugOutput = debug.DebugOutput
              /\ op'.out.ret = 0
              /\ ~reported => (op'.events = <<>> /\ debug'.Log = debug.Log)
              /\ reported =>
                    /\ Len(op'.events) = 1
                    /\ op'.events[1].gl_source = "GL_DEBUG_SOURCE_API"
                    /\ op'.events[1].gl_type = "GL_DEBUG_TYPE_ERROR"
                    /\ op'.events[1].gl_severity = "GL_DEBUG_SEVERITY_HIGH"
                    /\ op'.events[1].id = error_msg_id'
                    /\ op'.events[1].sink =
                          (IF debug.Callback # NULL THEN "callback"
                           ELSE IF LogIsFull(debug.Log) THEN "dropped" ELSE "log")
                    /\ op'.events[1].sink # "log" => debug'.Log = debug.Log
                    /\ op'.events[1].sink = "log" =>
                          /\ Len(new) = Len(old) + 1
                          /\ SubSeq(new, 1, Len(old)) = old
                          /\ debug'.Log.NextMessage = debug.Log.NextMessage
                          /\ \/ /\ new[Len(new)].source = MESA_DEBUG_SOURCE_API
                                /\ new[Len(new)].type = MESA_DEBUG_TYPE_ERROR
                                /\ new[Len(new)].severity = MESA_DEBUG_SEVERITY_HIGH
                                /\ new[Len(new)].id = error_msg_id'
                             \/ new[Len(new)].message = StaticOom]_vars

\* C17 happens: a push at the greatest depth was refused and its error
\* report went into the log.
C17_Witness ==
    /\ op.name = "PushDebugGroup"
    /\ op.errors = <<"GL_STACK_OVERFLOW">>
    /\ Len(op.events) = 1
    /\ op.events[1].sink = "log"
    /\ debug.Log.NumMessages = MAX_DEBUG_LOGGED_MESSAGES
    /\ debug.GroupStackDepth = MAX_DEBUG_GROUP_STACK_DEPTH - 1

\* The number of malloc'ed texts the log and the pending group messages hold.
HeapTexts ==
    Cardinality({i \in LogSlots : debug.Log.Messages[i].message.where = "heap"})
    + Cardinality({i \in Slots : debug.GroupMessages[i].message.where = "heap"})

\* C18: when malloc fails for the text of a message that goes into a log
\* that is not full, one message is stored all the same: out_of_memory, with
\* source OTHER, type ERROR, severity HIGH and the id of oom_msg_id.  That id
\* is given once and is the id of every out_of_memory message; and clearing
\* a message (after a fetch) frees malloc'ed texts only, never out_of_memory.
C18_OomSentinel ==
    /\ [][/\ (/\ op'.name = "DebugMessageInsert"
              /\ "out of memory message" \in op'.notes)
             => LET old == Fifo(debug.Log)
                    new == Fifo(debug'.Log)
                IN  /\ ~LogIsFull(debug.Log)
                    /\ Len(new) = Len(old) + 1
                    /\ SubSeq(new, 1, Len(old)) = old
                    /\ new[Len(new)] =
                          [source |-> MESA_DEBUG_SOURCE_OTHER,
                           type |-> MESA_DEBUG_TYPE_ERROR,
                           id |-> oom_msg_id',
                           severity |-> MESA_DEBUG_SEVERITY_HIGH,
                           length |-> strlen(out_of_memory) + 1,
                           message |-> StaticOom]
                    /\ ntext' = ntext
          /\ oom_msg_id # 0 => oom_msg_id' = oom_msg_id
          /\ op'.name = "GetDebugMessageLog" =>
                ntext' = ntext - Cardinality({j \in 1..op'.out.ret :
                                   Fifo(debug.Log)[j].message.where = "heap"})]_vars
    /\ [](/\ \A i \in LogSlots :
                debug.Log.Messages[i].message = StaticOom =>
                    /\ debug.Log.Messages[i].id = oom_msg_id
                    /\ oom_msg_id # 0
          /\ ntext = HeapTexts)

\* C18 happens: two messages were replaced by out_of_memory; one has been
\* fetched, with the id of oom_msg_id, and the other is still in the log.
C18_Witness ==
    /\ op.name = "GetDebugMessageLog"
    /\ op.out.ret = 1
    /\ op.out.ids = <<oom_msg_id>>
    /\ op.out.sources = <<"GL_DEBUG_SOURCE_OTHER">>
    /\ op.out.types = <<"GL_DEBUG_TYPE_ERROR">>
    /\ op.out.severities = <<"GL_DEBUG_SEVERITY_HIGH">>
    /\ debug.Log.NumMessages >= 1
    /\ Fifo(debug.Log)[1].message = StaticOom
    /\ Fifo(debug.Log)[1].id = oom_msg_id

\* C19: however the threads interleave in debug_get_id, a cell that has an
\* id keeps it, NextDynamicID moves only when a cell without an id gets one
\* (the value NextDynamicID had, and it moves by one), no cell gets the id 0,
\* and no two cells have the same id.
C19_DynamicIds ==
    /\ [][/\ \A c \in Cells : slot[c] # 0 => slot'[c] = slot[c]
          /\ \A c \in Cells : slot'[c] # slot[c] =>
                /\ slot'[c] = NextDynamicID
                /\ slot'[c] # 0
                /\ NextDynamicID' = NextDynamicID + 1
                /\ \A d \in Cells \ {c} : slot'[d] = slot[d]
          /\ NextDynamicID' # NextDynamicID =>
                \E c \in Cells : slot[c] = 0 /\ slot'[c] # 0]_vars
    /\ [](/\ \A c, d \in Cells :
                (c # d /\ slot[c] # 0 /\ slot[d] # 0) => slot[c] # slot[d]
          /\ NextDynamicID = 1 + Cardinality({c \in Cells : slot[c] # 0})
          /\ \A c \in Cells : slot[c] < NextDynamicID)

\* C19 happens: every cell has its id, and a thread that saw a cell without
\* one outside the mutex found it set under the mutex and left it alone.
C19_Witness ==
    /\ \A c \in Cells : slot[c] # 0
    /\ \E t \in Threads :
          /\ pc[t].at = "unlock"
          /\ slot[pc[t].cell] # NextDynamicID - 1
          /\ \E u \in Threads \ {t} : pc[u].at = "lock" /\ pc[u].cell = pc[t].cell

\* C20: after _mesa_free_errors_data nothing the debug state had allocated
\* is left: the context has no debug state, every group is freed, and so is
\* the text of every message that was in the log or pending in the stack.
C20_DestroyFreesAll ==
    (op.name = "free_errors_data") =>
        /\ ~live
        /\ \A a \in GroupAddrs : ~heap[a].used
        /\ ntext = 0

\* The messages the state holds: the ones in the log and the pending
\* messages of the open groups.
HeldMessages ==
    {debug.Log.Messages[i] : i \in LogSlots}
        \cup {debug.GroupMessages[i] : i \in Slots}

\* C21: every message the log or a pending group slot holds with a text of
\* its own has a length of the characters of its text plus one, the
\* terminator; so the length of a logged pop-group message is the length of
\* the push-group message with the same text.
C21_LengthCountsTerminator ==
    \A msg \in HeldMessages :
        msg.message.where = "heap" => msg.length = strlen(msg.message.bytes) + 1

----------------------------------------------------------------------------
(* The log as a queue: messages numbered 1, 2, ... by their ids, one more   *)
(* than the log holds, are inserted and fetched in any order, with and      *)
(* without a text buffer.  sent lists the messages the log stored, got what *)
(* the fetches returned.                                                    *)

FifoFetches ==
    {<<count, size[1], size[2]>> :
        count \in {0, 1, 2, MAX_DEBUG_LOGGED_MESSAGES + 1},
        size \in {<<0, FALSE>>, <<1, TRUE>>, <<MAX_DEBUG_MESSAGE_LENGTH, TRUE>>}}

\* The message debug_message_store keeps for a submitted id: the message
\* itself, or the out-of-memory message when the copy could not be allocated.
Stored(id, notes, oomId) ==
    IF "out of memory message" \in notes
    THEN [id |-> oomId, source |-> EnumAt(debug_source_enums, MESA_DEBUG_SOURCE_OTHER)]
    ELSE [id |-> id, source |-> "GL_DEBUG_SOURCE_APPLICATION"]

NextFifo ==
    \/ /\ UNCHANGED <<calls, sent, got, saved>>
       /\ \E fail \in FirstFails : SetDebugStateInt("GL_DEBUG_OUTPUT", 1, fail)
    \/ /\ calls < MAX_DEBUG_LOGGED_MESSAGES + 1
       /\ calls' = calls + 1
       /\ \E fail \in FirstFails :
              DebugMessageInsert("GL_DEBUG_SOURCE_APPLICATION",
                                 "GL_DEBUG_TYPE_MARKER", calls + 1,
                                 "GL_DEBUG_SEVERITY_HIGH", -1, Text(1), fail)
       /\ sent' = IF \E j \in 1..Len(op'.events) : op'.events[j].sink = "log"
                  THEN Append(sent, Stored(calls + 1, op'.notes, oom_msg_id'))
                  ELSE sent
       /\ UNCHANGED <<got, saved>>
    \/ /\ \E a \in FifoFetches, fail \in FirstFails :
              GetDebugMessageLog(a[1], a[2], a[3], fail)
       /\ got' = got \o [j \in 1..op'.out.ret |->
                            [id |-> op'.out.ids[j], source |-> op'.out.sources[j]]]
       /\ UNCHANGED <<calls, sent, saved>>

SpecFifo == Init /\ [][NextFifo]_vars

\* The messages of the log as a fetch would report them, oldest first.
Reported(log) ==
    [j \in 1..log.NumMessages |->
        [id |-> Fifo(log)[j].id,
         source |-> EnumAt(debug_source_enums, Fifo(log)[j].source)]]

\* C22: the messages glGetDebugMessageLog has returned, followed by the
\* messages still in the log, are the messages the log stored, in the order
\* it stored them; one call returns at most count messages and no more than
\* the log holds, and removes from the log exactly the messages it returns.
C22_FifoOrder ==
    /\ [](live => got \o Reported(debug.Log) = sent)
    /\ [][(op'.name = "GetDebugMessageLog" /\ live)
          => /\ op'.out.ret <= op'.args.count
             /\ op'.out.ret <= debug.Log.NumMessages
             /\ debug'.Log.NumMessages = debug.Log.NumMessages - op'.out.ret
             /\ (op'.out.ret < op'.args.count /\ ~op'.args.hasLog)
                    => debug'.Log.NumMessages = 0]_vars

\* Two messages were stored, the second after the first was fetched, and both
\* have been fetched.
C22_Witness ==
    /\ op.name = "GetDebugMessageLog"
    /\ op.out.ret = 1
    /\ Len(got) >= 3
    /\ Len(sent) > MAX_DEBUG_LOGGED_MESSAGES
    /\ \E j \in 1..Len(got) : got[j].source = "GL_DEBUG_SOURCE_OTHER"

\* C23: debug_namespace_set_all with every severity leaves no element and a
\* default state of all the severities or of none; with one severity it
\* makes debug_namespace_get answer enabled for that severity and every id,
\* changes that bit of the default state only, and leaves the answer for
\* every id and every other severity as it was.
C23_SetAllAsymmetry ==
    [][(nsop'.name = "set_all")
       => IF nsop'.severity = MESA_DEBUG_SEVERITY_COUNT
          THEN /\ namespace'.Elements = <<>>
               /\ namespace'.DefaultState =
                      IF nsop'.enabled
                      THEN Pow2(MESA_DEBUG_SEVERITY_COUNT) - 1 ELSE 0
          ELSE /\ \A id \in ProbeIds :
                      debug_namespace_get(namespace', id, nsop'.severity)
                          = nsop'.enabled
               /\ \A id \in ProbeIds, s \in Severities \ {nsop'.severity} :
                      debug_namespace_get(namespace', id, s)
                          = debug_namespace_get(namespace, id, s)
               /\ \A s \in Severities \ {nsop'.severity} :
                      Bit(namespace'.DefaultState, s) = Bit(namespace.DefaultState, s)
               /\ (Bit(namespace'.DefaultState, nsop'.severity) # 0) = nsop'.enabled]_vars

\* A set_all of one severity was applied to a namespace with elements, and
\* left one that still differs from the default state in another severity.
C23_Witness ==
    /\ nsop.name = "set_all"
    /\ nsop.severity # MESA_DEBUG_SEVERITY_COUNT
    /\ nsop.had >= 1
    /\ \E i \in 1..Len(namespace.Elements), s \in Severities \ {nsop.severity} :
           Bit(namespace.Elements[i].State, s) # Bit(namespace.DefaultState, s)

----------------------------------------------------------------------------
(* The group stack: groups are pushed and popped, and the filters changed   *)
(* inside them, in runs of at most MaxScopeCalls entry points.  saved holds *)
(* one entry for each open group: what its glPushDebugGroup was given, and  *)
(* the namespaces of the group that was on top when it was called.          *)

MaxScopeCalls == 4

ScopeCall ==
    calls < MaxScopeCalls /\ calls' = calls + 1 /\ UNCHANGED <<sent, got>>

\* The filter changes made in these runs: everything on, everything off, and
\* one id off.
ScopeControls ==
    {<<"GL_DONT_CARE", "GL_DONT_CARE", "GL_DONT_CARE", 0, <<>>, TRUE>>,
     <<"GL_DONT_CARE", "GL_DONT_CARE", "GL_DONT_CARE", 0, <<>>, FALSE>>,
     <<"GL_DEBUG_SOURCE_APPLICATION", "GL_DEBUG_TYPE_PUSH_GROUP", "GL_DONT_CARE",
       1, <<1>>, FALSE>>}

\* The text of the group with the given id: one character for the first, the
\* longest text validate_length accepts for the others.
ScopeText(id) == Text(IF id = 1 THEN 1 ELSE MAX_DEBUG_MESSAGE_LENGTH - 1)

\* The group on top of the stack of state (h, d).
TopOf(h, d) == h[d.Groups[d.GroupStackDepth]].Namespaces

NextScope ==
    \/ /\ ScopeCall
       /\ UNCHANGED saved
       /\ \E fail \in FirstFails : SetDebugStateInt("GL_DEBUG_OUTPUT", 1, fail)
    \/ /\ ScopeCall
       /\ UNCHANGED saved
       /\ \E cb \in {NULL, 1}, fail \in FirstFails : DebugMessageCallback(cb, cb, fail)
    \/ /\ ScopeCall
       /\ UNCHANGED saved
       /\ \E c \in ScopeControls, fail \in FirstFails :
              DebugMessageControl(c[1], c[2], c[3], c[4], c[5], c[6], fail)
    \/ /\ ScopeCall
       /\ \E source \in {"GL_DEBUG_SOURCE_APPLICATION", "GL_DEBUG_SOURCE_OTHER"},
             id \in 1..2, fail \in Fails :
              PushDebugGroup(source, id, -1, ScopeText(id), fail)
       /\ saved' = IF live' /\ debug'.GroupStackDepth = debug.GroupStackDepth + 1
                   THEN Append(saved,
                               [source |-> op'.args.source, id |-> op'.args.id,
                                message |-> op'.args.message,
                                Namespaces |->
                                    heap'[debug'.Groups[debug.GroupStackDepth]].Namespaces])
                   ELSE saved
    \/ /\ ScopeCall
       /\ \E fail \in FirstFails : PopDebugGroup(fail)
       /\ saved' = IF live' /\ debug'.GroupStackDepth = debug.GroupStackDepth - 1
                   THEN SubSeq(saved, 1, Len(saved) - 1)
                   ELSE saved

SpecScope == Init /\ [][NextScope]_vars

\* C24: a glPushDebugGroup that opens a group leaves what
\* debug_is_message_enabled's lookup answers for every source, type, id and
\* severity unchanged, and the glPopDebugGroup that closes the group leaves on
\* top a group whose namespaces, default states and elements, are the ones
\* that were on top when the group was opened, whatever was called in between.
C24_PushPopRoundTrip ==
    /\ [][(/\ op'.name = "PushDebugGroup" /\ live /\ live'
           /\ debug'.GroupStackDepth = debug.GroupStackDepth + 1)
          => FilterView(heap', debug', debug'.GroupStackDepth)
                 = FilterView(heap, debug, debug.GroupStackDepth)]_vars
    /\ [][(/\ op'.name = "PopDebugGroup" /\ live /\ live'
           /\ debug'.GroupStackDepth = debug.GroupStackDepth - 1)
          => TopOf(heap', debug') = saved[Len(saved)].Namespaces]_vars

\* The stack slots in use that point to the group at address a.
SlotsOf(d, a) == {i \in 0..d.GroupStackDepth : d.Groups[i] = a}

\* C25: while the debug state exists every slot from 0 to the stack depth
\* points to an allocated group, the slots that point to one group are
\* adjacent, and every allocated group is pointed to by a slot in use; without
\* a debug state no group is allocated; no group is freed that is not
\* allocated; and a glPopDebugGroup frees the group of the slot it removes
\* exactly when the slot below does not point to the same group.
C25_GroupLifetime ==
    /\ [](live =>
            /\ \A i \in 0..debug.GroupStackDepth :
                   debug.Groups[i] \in GroupAddrs /\ heap[debug.Groups[i]].used
            /\ \A a \in GroupAddrs : \A i, j \in SlotsOf(debug, a) :
                   \A k \in i..j : k \in SlotsOf(debug, a)
            /\ \A a \in GroupAddrs : heap[a].used => SlotsOf(debug, a) # {})
    /\ [](~live => \A a \in GroupAddrs : ~heap[a].used)
    /\ []("free of a group that is not allocated" \notin op.asserts)
    /\ [][(/\ op'.name = "PopDebugGroup" /\ live
           /\ debug'.GroupStackDepth = debug.GroupStackDepth - 1)
          => LET gstack == debug.GroupStackDepth
                 grp == debug.Groups[gstack]
             IN  /\ heap'[grp].used = (debug.Groups[gstack - 1] = grp)
                 /\ ("free(grp)" \in op'.notes) = ~heap'[grp].used
                 /\ \A a \in GroupAddrs \ {grp} : heap'[a].used = heap[a].used]_vars

\* A glPopDebugGroup freed the group of the slot it removed, and a group is
\* still open whose slot has a group of its own.
C25_Witness ==
    /\ op.name = "PopDebugGroup"
    /\ "free(grp)" \in op.notes
    /\ debug.GroupStackDepth >= 1
    /\ debug.Groups[debug.GroupStackDepth] # debug.Groups[debug.GroupStackDepth - 1]

\* A step is a glPushDebugGroup that opened a group, a glPopDebugGroup that
\* closed one.
Pushed ==
    /\ op'.name = "PushDebugGroup" /\ live /\ live'
    /\ debug'.GroupStackDepth = debug.GroupStackDepth + 1

Popped ==
    /\ op'.name = "PopDebugGroup" /\ live /\ live'
    /\ debug'.GroupStackDepth = debug.GroupStackDepth - 1

\* Whether log_msg lets a message through in state (h, d).
Passes(h, d, source, type, id, severity) ==
    d.DebugOutput /\ debug_namespace_get(TopOf(h, d)[source][type], id, severity)

\* The characters of a stored text, without its terminators.
Chars(bytes) == SubSeq(bytes, 1, strlen(bytes))

\* The message of glPushDebugGroup passes or not by the filters of the group
\* on top before the call.
PushFilteredBefore ==
    Pushed =>
        (op'.events # <<>>) =
            Passes(heap, debug, gl_enum_to_debug_source(op'.args.source),
                   MESA_DEBUG_TYPE_PUSH_GROUP, op'.args.id,
                   MESA_DEBUG_SEVERITY_NOTIFICATION)

\* The message of glPopDebugGroup is the pending message of the slot below,
\* as a pop-group notification, and passes or not by the filters of the group
\* on top after the call.
PopFilteredAfter ==
    Popped =>
        LET gdmessage == debug.GroupMessages[debug.GroupStackDepth - 1]
        IN  /\ (op'.events # <<>>) =
                   Passes(heap', debug', gdmessage.source,
                          MESA_DEBUG_TYPE_POP_GROUP, gdmessage.id,
                          MESA_DEBUG_SEVERITY_NOTIFICATION)
            /\ \A j \in 1..Len(op'.events) :
                   /\ op'.events[j].source = gdmessage.source
                   /\ op'.events[j].type = MESA_DEBUG_TYPE_POP_GROUP
                   /\ op'.events[j].id = gdmessage.id
                   /\ op'.events[j].severity = MESA_DEBUG_SEVERITY_NOTIFICATION
                   /\ EventText(op'.events[j]) = Chars(gdmessage.message.bytes)
            /\ debug'.GroupMessages[debug.GroupStackDepth - 1].message = NullText

\* The messages of a step carry the source, id and text the glPushDebugGroup
\* entry e of saved was given.
Replays(events, e) ==
    \A j \in 1..Len(events) :
        /\ events[j].source = gl_enum_to_debug_source(e.source)
        /\ events[j].id = e.id
        /\ EventText(events[j]) = Chars(e.message)

\* The messages of a step carry the source, id and text of out_of_memory.
ReplaysOom(events, id) ==
    \A j \in 1..Len(events) :
        /\ events[j].source = MESA_DEBUG_SOURCE_OTHER
        /\ events[j].id = id
        /\ EventText(events[j]) = Chars(out_of_memory)

\* C26 as claimed: the push-group message is filtered by the group on top
\* before the push and the pop-group message by the group on top after the
\* pop; every glPushDebugGroup that opens a group leaves a pending message,
\* whatever became of its push-group message; and the pop-group message always
\* carries the source, id and text given to the glPushDebugGroup that opened
\* the group being closed.
C26_AlwaysReplaysPush ==
    /\ [][PushFilteredBefore]_vars
    /\ [][PopFilteredAfter]_vars
    /\ [][Pushed => debug'.GroupMessages[debug.GroupStackDepth].message # NullText]_vars
    /\ [][Popped => Replays(op'.events, saved[Len(saved)])]_vars

\* C26, amended: as above, but the pop-group message carries the source, id
\* and text given to the matching glPushDebugGroup only where the pending copy
\* was allocated; where it was not, the pending message is out_of_memory and
\* the pop-group message carries its source, id and text.
C26_ReplaysPendingCopy ==
    /\ [][PushFilteredBefore]_vars
    /\ [][PopFilteredAfter]_vars
    /\ [][Pushed =>
            LET msg == debug'.GroupMessages[debug.GroupStackDepth]
            IN  IF msg.message.where = "heap"
                THEN /\ msg.source = gl_enum_to_debug_source(op'.args.source)
                     /\ msg.id = op'.args.id
                     /\ Chars(msg.message.bytes) = Chars(op'.args.message)
                ELSE /\ msg.message = StaticOom
                     /\ msg.source = MESA_DEBUG_SOURCE_OTHER
                     /\ msg.id = oom_msg_id'
                     /\ "out of memory message" \in op'.notes]_vars
    /\ [][Popped =>
            LET gdmessage == debug.GroupMessages[debug.GroupStackDepth - 1]
            IN  IF gdmessage.message.where = "heap"
                THEN Replays(op'.events, saved[Len(saved)])
                ELSE /\ gdmessage.message = StaticOom
                     /\ ReplaysOom(op'.events, oom_msg_id)]_vars

\* With debug output on, a glPopDebugGroup closed a group in which the
\* filters were changed, and its pop-group message was filtered out as the
\* group below has it.
C26_Witness ==
    /\ op.name = "PopDebugGroup"
    /\ "free(grp)" \in op.notes
    /\ live /\ debug.DebugOutput
    /\ op.events = <<>>

\* C27: a glPushDebugGroup whose source is neither GL_DEBUG_SOURCE_APPLICATION
\* nor GL_DEBUG_SOURCE_THIRD_PARTY reports GL_INVALID_ENUM at every depth of
\* the stack, the greatest included, and GL_STACK_OVERFLOW is reported only
\* to calls whose source is one of the two.
C27_SourceBeforeHeadroom ==
    [][(op'.name = "PushDebugGroup" /\ live)
       => LET valid == op'.args.source \in {"GL_DEBUG_SOURCE_APPLICATION",
                                             "GL_DEBUG_SOURCE_THIRD_PARTY"}
          IN  /\ ~valid => op'.errors = <<"GL_INVALID_ENUM">>
              /\ (\E j \in 1..Len(op'.errors) : op'.errors[j] = "GL_STACK_OVERFLOW")
                     => valid]_vars

\* C28: the assertion of debug_log_message, len >= 0 && len <
\* MAX_DEBUG_MESSAGE_LENGTH, holds in every call made by glPushDebugGroup and
\* glPopDebugGroup with texts that validate_length accepted.
C28_EnqueueLength ==
    "debug_log_message: len >= 0 && len < MAX_DEBUG_MESSAGE_LENGTH" \notin op.asserts

----------------------------------------------------------------------------
(* The slots of the messages: once debug output and every message are       *)
(* enabled, messages are inserted and fetched and groups pushed and popped  *)
(* within the bounds of the stack, in runs of any length.                   *)

\* Debug output and every message have been enabled.
Enabled == op.name \notin {"none", "set_debug_state_int"}

NextSlots ==
    \/ /\ op.name = "none"
       /\ UNCHANGED <<calls, sent, got, saved>>
       /\ SetDebugStateInt("GL_DEBUG_OUTPUT", 1, {})
    \/ /\ op.name = "set_debug_state_int"
       /\ UNCHANGED <<calls, sent, got, saved>>
       /\ DebugMessageControl("GL_DONT_CARE", "GL_DONT_CARE", "GL_DONT_CARE",
                              0, <<>>, TRUE, {})
    \/ /\ Enabled
       /\ UNCHANGED <<calls, sent, got, saved>>
       /\ \E fail \in FirstFails :
              DebugMessageInsert("GL_DEBUG_SOURCE_APPLICATION",
                                 "GL_DEBUG_TYPE_MARKER", 1,
                                 "GL_DEBUG_SEVERITY_HIGH", -1, Text(1), fail)
    \/ /\ Enabled
       /\ UNCHANGED <<calls, sent, got, saved>>
       /\ \E count \in 1..2 : GetDebugMessageLog(count, 0, FALSE, {})
    \/ /\ Enabled /\ ~StackIsFull(debug)
       /\ UNCHANGED <<calls, sent, got, saved>>
       /\ PushDebugGroup("GL_DEBUG_SOURCE_APPLICATION", 1, -1, Text(1), {})
    \/ /\ Enabled /\ ~StackIsEmpty(debug)
       /\ UNCHANGED <<calls, sent, got, saved>>
       /\ PopDebugGroup({})

SpecSlots == Init /\ [][NextSlots]_vars

\* The slots of the log from NextMessage on that NumMessages counts.
LiveWindow(log) ==
    {(log.NextMessage + j) % MAX_DEBUG_LOGGED_MESSAGES :
        j \in 0..(log.NumMessages - 1)}

\* A slot without a message, as debug_message_store asserts it.
IsEmptySlot(msg) == msg.message = NullText /\ msg.length = 0

\* C29: slot i of the pending group messages holds a message exactly when i
\* is below the stack depth, a slot of the log holds a message exactly when
\* it is one of the NumMessages slots from NextMessage on, every other slot is
\* empty, and debug_message_store is never called on a slot that is not.
C29_SlotOccupancy ==
    /\ \A i \in Slots :
           IF live /\ i < debug.GroupStackDepth
           THEN debug.GroupMessages[i].message # NullText
           ELSE IsEmptySlot(debug.GroupMessages[i])
    /\ \A i \in LogSlots :
           IF live /\ i \in LiveWindow(debug.Log)
           THEN debug.Log.Messages[i].message # NullText
           ELSE IsEmptySlot(debug.Log.Messages[i])
    /\ "debug_message_store: !msg->message && !msg->length" \notin op.asserts

\* The messages of the log wrap around the end of the array while a group
\* is open.
C29_Witness ==
    /\ live
    /\ debug.GroupStackDepth >= 1
    /\ debug.Log.NextMessage = MAX_DEBUG_LOGGED_MESSAGES - 1
    /\ debug.Log.NumMessages = 2
    /\ op.name = "PopDebugGroup"

============================================================================
